---- MODULE Spec2Model ----
(***************************************************************************)
(* Posture detector (PostureDetector in src/src/ml/test.ml.js) as a state  *)
(* machine: tick loop, window aggregation, threshold classification with   *)
(* hysteresis, adaptive baseline, rolling window history and alert engine. *)
(*                                                                         *)
(* Angles are fixed-point integers in thousandths of a degree; times are   *)
(* integers in milliseconds; sample weights are thousandths.               *)
(***************************************************************************)
EXTENDS Integers, Sequences, FiniteSets, TLC

(* ------------------------------------------------------------------ *)
(* Program constants (src/src/ml/constants.ml.js, DEFAULT_CONFIG)      *)
(* ------------------------------------------------------------------ *)
BASELINE_ANGLE == 5000
SAMPLING_WINDOW_MS == 5000
FRAME_INTERVAL_MS == 167
MIN_VALID_FRAMES == 3
WINDOWS_HISTORY == 3
WINDOWS_VOTES_REQUIRED == 2
PERSIST_MS == 8000
ALERT_COOLDOWN_MS == 30000
GOOD_THRESHOLD == 5000
MILD_THRESHOLD == 10000
BAD_THRESHOLD == 10000
MIN_ANGLE == 0
MAX_ANGLE == 70000
BASELINE_UPDATE_ALPHA == 200
MIN_ALIGNMENT_SCORE == 400
HYSTERESIS == 1500

GOOD == "good"
MILD == "mild"
BAD == "bad"
INSUFFICIENT == "insufficient"
SLOUCH == "bad"
NoLabel == "none"
Labels == {GOOD, MILD, BAD}

(* ------------------------------------------------------------------ *)
(* Bounds of the model                                                  *)
(* ------------------------------------------------------------------ *)
\* the clock value when the page is opened (Date.now() is far beyond the cooldown)
T0 == 100000
\* the timer callback is observed every TickEvery-th interval (throttled timer)
TickEvery == 10
\* number of timer callbacks in a run
MaxTicks == 12
\* length of an idle period (no timer installed)
IdleMs == 30000
\* the clock stops MaxTime milliseconds past T0
MaxTime == 52000
\* number of whole windows fed by the window-level driver
MaxFeeds == 5
\* number of whole windows fed to a detector with a trained model
MaxModelFeeds == 3
\* spacing of the window medians the baseline update is applied to
MedianStep == 250
\* number of baseline updates in a row
MaxUpdates == 1

TickGap == TickEvery * FRAME_INTERVAL_MS

\* absolute value of a null reference (baselineAngle === null)
NullAngle == -1
\* personalizedThresholds === null
NullThresholds == [good |-> 0, mild |-> 0, bad |-> 0]

VARIABLES
  now,                    \* Date.now()
  getKeypoints,           \* a keypoint source is installed (init() succeeded)
  model,                  \* this.model !== null
  baselineAngle,
  isRunning,
  detectionTimer,         \* the setInterval handle is kept (not null)
  liveTimers,             \* interval timers set and not cleared
  windowHistory,          \* labels of the retained window records, oldest first
  currentWindow,          \* samples of the open window
  windowStartTime,        \* 0 stands for null
  windowIndex,
  lastAlertTime,
  isMuted,
  snoozeUntil,
  badPersistenceMs,
  personalizedThresholds,
  lastClassification,     \* hysteresis state, NoLabel for null/undefined
  ev,                     \* callbacks made by the last handler (observable output)
  alertTimes,             \* times of all onAlert invocations so far
  run,                    \* the windows closed since start(), summarised
  ticks,                  \* timer callbacks so far
  pending,                \* the processWindow call suspended at its await
  angleHistory,           \* the smoothing buffer of computeSpineAngle (module level)
  extracted,              \* the last result of computeFeaturesFromKeypoints
  trainer,                \* the PostureTrainer instance
  storage,                \* the dataset kept in storage under DATASET_KEY
  trainerEv,              \* what the last trainer call did (observable output)
  recClock,               \* time since the trainer was created, in ms
  recTimers,              \* the timeouts the recording sessions have set, in order
  sessions,               \* the startRecording calls that began a session, in order
  simpleStorage           \* the SimpleStorage instance and its two backends

\* the PostureDetector instance and its environment
detectorVars ==
  << now, getKeypoints, model, baselineAngle, isRunning, detectionTimer, liveTimers,
     windowHistory, currentWindow, windowStartTime, windowIndex,
     lastAlertTime, isMuted, snoozeUntil, badPersistenceMs,
     personalizedThresholds, lastClassification, ev, alertTimes, run, ticks,
     pending >>

\* feature extraction.  The detector specifications take a frame as the
\* result of the extraction (its smoothed spine angle and its quality); the
\* smoothing buffer itself is followed in SpecPose.
poseVars == << angleHistory, extracted >>

trainerVars ==
  << trainer, storage, trainerEv, recClock, recTimers, sessions, simpleStorage >>

vars == << detectorVars, poseVars, trainerVars >>

(* ------------------------------------------------------------------ *)
(* Helpers                                                              *)
(* ------------------------------------------------------------------ *)
Abs(x) == IF x < 0 THEN -x ELSE x
Min(a, b) == IF a < b THEN a ELSE b
Max(a, b) == IF a > b THEN a ELSE b

RECURSIVE CountBad(_)
CountBad(h) ==
  IF h = << >> THEN 0
  ELSE (IF Head(h) = BAD THEN 1 ELSE 0) + CountBad(Tail(h))

\* Array.prototype.slice(-n)
LastN(h, n) == IF Len(h) <= n THEN h ELSE SubSeq(h, Len(h) - n + 1, Len(h))

\* mutant: the newest record is dropped when the history is full
PushHistory_DropsNewest(h, l) ==
  IF Len(h) >= WINDOWS_HISTORY THEN h ELSE Append(h, l)

\* push followed by shift when the history exceeds WINDOWS_HISTORY
PushHistory(h, l) ==
  LET h1 == Append(h, l)
  IN  IF Len(h1) > WINDOWS_HISTORY THEN Tail(h1) ELSE h1

\* this.windowHistory.reduce(...) of processWindow
BadPersistence(h) == CountBad(h) * SAMPLING_WINDOW_MS

(* ------------------------------------------------------------------ *)
(* computeWeightedStats: the weighted median (percentile(0.5))          *)
(* ------------------------------------------------------------------ *)
RECURSIVE WeightUpTo(_, _, _)
\* total weight of the entries of s whose value (field f) is <= v
WeightUpTo(s, f, v) ==
  IF s = << >> THEN 0
  ELSE (IF Head(s)[f] <= v THEN Head(s).weight ELSE 0) + WeightUpTo(Tail(s), f, v)

Values(s, f) == { s[i][f] : i \in 1..Len(s) }

SetMax(S) == CHOOSE x \in S : \A y \in S : y <= x
SetMin(S) == CHOOSE x \in S : \A y \in S : x <= y

\* walk over the value-sorted entries, return the first value at which the
\* accumulated weight fraction reaches 0.5
percentileHalf(s, f) ==
  LET total == WeightUpTo(s, f, SetMax(Values(s, f)))
      hit   == { v \in Values(s, f) : 2 * WeightUpTo(s, f, v) >= total }
  IN  SetMin(hit)

\* computeWindowStatistics: median of the relative and of the absolute angles
computeWindowStatistics(s) ==
  [median |-> percentileHalf(s, "angleRel"), absMedian |-> percentileHalf(s, "angle")]

(* ------------------------------------------------------------------ *)
(* Classifier                                                           *)
(* ------------------------------------------------------------------ *)
getThresholds(pt) ==
  IF pt # NullThresholds THEN pt
  ELSE [good |-> GOOD_THRESHOLD, mild |-> MILD_THRESHOLD, bad |-> BAD_THRESHOLD]

\* v || d on numbers
OrDefault(v, d) == IF v = 0 THEN d ELSE v

\* mutant: from state good the plain cutoffs are used, no hysteresis margin
thresholdClassification_NoHysteresis(angleRel, pt, last) ==
  LET t == getThresholds(pt)
  IN  IF angleRel <= t.good THEN [label |-> GOOD, last |-> GOOD]
      ELSE IF angleRel <= t.mild
        THEN [label |-> MILD, last |-> IF last = GOOD THEN last ELSE MILD]
      ELSE [label |-> BAD, last |-> BAD]

\* mutant: from state good the margin is taken off the good cutoff
thresholdClassification_MarginInward(angleRel, pt, last) ==
  LET t == getThresholds(pt)
  IN  IF angleRel <= (IF last = GOOD THEN t.good - HYSTERESIS ELSE t.good)
        THEN [label |-> GOOD, last |-> GOOD]
      ELSE IF angleRel <= t.mild
        THEN [label |-> MILD, last |-> IF last = GOOD THEN last ELSE MILD]
      ELSE [label |-> BAD, last |-> BAD]

\* mutant: from state mild the hysteresis margin widens the mild band
thresholdClassification_MildMargin(angleRel, pt, last) ==
  LET t == getThresholds(pt)
  IN  IF last = MILD THEN
        IF angleRel <= t.good - HYSTERESIS THEN [label |-> GOOD, last |-> GOOD]
        ELSE IF angleRel <= t.bad + HYSTERESIS THEN [label |-> MILD, last |-> last]
        ELSE [label |-> BAD, last |-> BAD]
      ELSE IF last = GOOD THEN
        IF angleRel <= t.mild + HYSTERESIS THEN [label |-> GOOD, last |-> last]
        ELSE IF angleRel <= t.bad + HYSTERESIS THEN [label |-> MILD, last |-> last]
        ELSE [label |-> BAD, last |-> BAD]
      ELSE
        IF angleRel <= t.good THEN [label |-> GOOD, last |-> GOOD]
        ELSE IF angleRel <= t.mild THEN [label |-> MILD, last |-> MILD]
        ELSE [label |-> BAD, last |-> BAD]

\* returns the label and the new hysteresis state
thresholdClassification(angleRel, pt, last) ==
  LET t == getThresholds(pt)
      goodThreshold == OrDefault(t.good, GOOD_THRESHOLD)
      mildThreshold == OrDefault(t.mild, MILD_THRESHOLD)
      badThreshold  == OrDefault(t.bad, BAD_THRESHOLD)
  IN  IF last = GOOD THEN
        IF angleRel <= mildThreshold + HYSTERESIS THEN [label |-> GOOD, last |-> last]
        ELSE IF angleRel <= badThreshold + HYSTERESIS THEN [label |-> MILD, last |-> last]
        ELSE [label |-> BAD, last |-> BAD]
      ELSE IF last = MILD THEN
        IF angleRel <= goodThreshold THEN [label |-> GOOD, last |-> GOOD]
        ELSE IF angleRel <= badThreshold THEN [label |-> MILD, last |-> last]
        ELSE [label |-> BAD, last |-> BAD]
      ELSE
        IF angleRel <= goodThreshold THEN [label |-> GOOD, last |-> GOOD]
        ELSE IF angleRel <= mildThreshold THEN [label |-> MILD, last |-> MILD]
        ELSE [label |-> BAD, last |-> BAD]

\* mutant: the cutoffs follow the median without their floors
updateAdaptiveBaseline_NoFloor(stats, base) ==
  [ baseline |-> IF base = NullAngle THEN stats.absMedian ELSE base,
    thresholds |->
      [ good |-> Min(GOOD_THRESHOLD, stats.median + 200),
        mild |-> Min(MILD_THRESHOLD, stats.median + 1000),
        bad  |-> stats.median + 2000 ] ]

\* mutant: the bad cutoff follows the median below its default
updateAdaptiveBaseline_BadFollowsMedian(stats, base) ==
  [ baseline |->
      IF base = NullAngle THEN stats.absMedian
      ELSE ((1000 - BASELINE_UPDATE_ALPHA) * base
             + BASELINE_UPDATE_ALPHA * stats.absMedian) \div 1000,
    thresholds |->
      [ good |-> Min(GOOD_THRESHOLD, Max(500, stats.median + 200)),
        mild |-> Min(MILD_THRESHOLD, Max(GOOD_THRESHOLD + 500, stats.median + 1000)),
        bad  |-> stats.median + 2000 ] ]

\* returns the new baseline and the new personalized thresholds
updateAdaptiveBaseline(stats, base) ==
  [ baseline |->
      IF base = NullAngle THEN stats.absMedian
      ELSE ((1000 - BASELINE_UPDATE_ALPHA) * base
             + BASELINE_UPDATE_ALPHA * stats.absMedian) \div 1000,
    thresholds |->
      [ good |-> Min(GOOD_THRESHOLD, Max(500, stats.median + 200)),
        mild |-> Min(MILD_THRESHOLD, Max(GOOD_THRESHOLD + 500, stats.median + 1000)),
        bad  |-> Max(BAD_THRESHOLD, stats.median + 2000) ] ]


(* ------------------------------------------------------------------ *)
(* Model inference (predict) and the ensemble of processWindow          *)
(* ------------------------------------------------------------------ *)
MODEL_WEIGHT == 700
THRESHOLD_WEIGHT == 300

\* predict(): probabilities in thousandths, label by the larger probability,
\* probs keyed by the label names
predict(pSlouch) ==
  [ label |-> IF pSlouch > 1000 - pSlouch THEN SLOUCH ELSE GOOD,
    probs |-> [good |-> 1000 - pSlouch, bad |-> pSlouch] ]

\* modelPrediction.probs[i] || 0: probs has the keys 'good' and 'bad', no index i
probsAt(probs, i) == 0

\* mutant: the model's label decides alone
ensembleLabel_ModelDecides(prediction, thresholdLabel) ==
  IF prediction.label = SLOUCH THEN BAD
  ELSE IF thresholdLabel = MILD THEN MILD
  ELSE GOOD

\* final label of a window from the model prediction and the threshold label
ensembleLabel(prediction, thresholdLabel) ==
  LET slouch == probsAt(prediction.probs, 1)
      combinedBadScore ==
        slouch * MODEL_WEIGHT + (IF thresholdLabel = BAD THEN 1000 ELSE 0) * THRESHOLD_WEIGHT
  IN  IF prediction.label = SLOUCH /\ thresholdLabel = BAD THEN BAD
      ELSE IF combinedBadScore > 500 * 1000 THEN BAD
      ELSE IF thresholdLabel = MILD THEN MILD
      ELSE GOOD

(* ------------------------------------------------------------------ *)
(* Alert engine: the conditions of checkForAlert                        *)
(* ------------------------------------------------------------------ *)
enoughHistory(h) == Len(h) >= 2


consecutiveBad(h) ==
  LET recent == LastN(h, WINDOWS_HISTORY)
  IN  /\ Len(recent) >= 2
      /\ recent[Len(recent)] = BAD
      /\ recent[Len(recent) - 1] = BAD

votesMet(h) == CountBad(LastN(h, WINDOWS_HISTORY)) >= WINDOWS_VOTES_REQUIRED

persistenceMet(bp) == bp >= PERSIST_MS

\* mutant: the cooldown is not enforced
cooldownMet_Never(n, last) == TRUE

cooldownMet(n, last) == (n - last) >= ALERT_COOLDOWN_MS

\* mutant: the mute flag is not consulted
notSnoozed_IgnoresMute(muted, n, until) == n > until

notSnoozed(muted, n, until) == ~muted /\ n > until

\* mutant: one bad window among the retained ones is enough, whatever its duration
checkForAlert_OneBadWindow(h, bp, n, last, muted, until) ==
  /\ enoughHistory(h)
  /\ CountBad(h) >= 1
  /\ cooldownMet(n, last)
  /\ notSnoozed(muted, n, until)

\* mutant: the decision looks at the latest window only
checkForAlert_LatestOnly(h, bp, n, last, muted, until) ==
  /\ h # << >>
  /\ h[Len(h)] = BAD
  /\ cooldownMet(n, last)
  /\ notSnoozed(muted, n, until)

\* TRUE when checkForAlert calls triggerAlert
checkForAlert(h, bp, n, last, muted, until) ==
  /\ enoughHistory(h)
  /\ (consecutiveBad(h) \/ votesMet(h))
  /\ persistenceMet(bp)
  /\ cooldownMet(n, last)
  /\ notSnoozed(muted, n, until)

(* ------------------------------------------------------------------ *)
(* processWindow                                                        *)
(* ------------------------------------------------------------------ *)
\* mutant: off by one in the frame-count test
isInsufficient_OffByOne(buf) == Len(buf) < MIN_VALID_FRAMES - 1

isInsufficient(buf) == Len(buf) < MIN_VALID_FRAMES

\* what the last handler did: closed (a window was closed), frames (samples the
\* window held), reported (onUpdate got a window status), label/validFrames/idx
\* (that status), median (the window's median relative angle), tlabel (the
\* threshold classifier's label), recorded (a record was pushed), alerts
\* (number of onAlert calls), statuses (number of onUpdate calls carrying a
\* window status), inference ("none" without a model, "ok", or "throw") and
\* pSlouch (the slouch probability predict returned)
NoEv ==
  [ closed |-> FALSE, frames |-> 0, reported |-> FALSE, label |-> NoLabel,
    median |-> 0, tlabel |-> NoLabel, validFrames |-> 0, idx |-> 0,
    recorded |-> FALSE, alerts |-> 0, statuses |-> 0, inference |-> "none",
    pSlouch |-> 0, messages |-> 0, uncaught |-> FALSE ]

\* no processWindow call is suspended
NoPending == [active |-> FALSE, frames |-> 0, median |-> 0, absMedian |-> 0, pSlouch |-> 0]

\* the fields processWindow leaves alone
Unchanged(e) ==
  [ hist |-> windowHistory, last |-> lastClassification,
    pt |-> personalizedThresholds, base |-> baselineAngle,
    bp |-> badPersistenceMs, lat |-> lastAlertTime, ev |-> e, pend |-> NoPending ]

\* processWindow from the classification on: stats are the statistics of the
\* closed window and frames its size; valid and idx are what
\* this.currentWindow.length and this.windowIndex read when the status is built
finishWindow(stats, frames, valid, idx, n, inference, updThrows) ==
  LET tc     == thresholdClassification(stats.median, personalizedThresholds,
                                        lastClassification)
      label  == IF inference.kind = "none" THEN tc.label
                ELSE ensembleLabel(predict(inference.pSlouch), tc.label)
      upd    == IF label = GOOD
                THEN updateAdaptiveBaseline(stats, baselineAngle)
                ELSE [baseline |-> baselineAngle, thresholds |-> personalizedThresholds]
      hist   == PushHistory(windowHistory, label)
      status == [NoEv EXCEPT !.closed = TRUE, !.frames = frames,
                    !.reported = TRUE, !.label = label, !.statuses = 1,
                    !.inference = inference.kind, !.pSlouch = inference.pSlouch,
                    !.median = stats.median, !.tlabel = tc.label, !.recorded = TRUE,
                    !.validFrames = valid, !.idx = idx]
      bp     == BadPersistence(hist)
      fire   == checkForAlert(hist, bp, n, lastAlertTime, isMuted, snoozeUntil)
  IN  IF updThrows THEN
        [ hist |-> hist, last |-> tc.last, pt |-> upd.thresholds, base |-> upd.baseline,
          bp |-> badPersistenceMs, lat |-> lastAlertTime, ev |-> status,
          pend |-> NoPending ]
      ELSE
        [ hist |-> hist, last |-> tc.last, pt |-> upd.thresholds, base |-> upd.baseline,
          bp |-> bp, lat |-> IF fire THEN n ELSE lastAlertTime,
          ev |-> [status EXCEPT !.alerts = IF fire THEN 1 ELSE 0],
          pend |-> NoPending ]

\* processWindow on the buffer buf at time n, up to its return or its await.
\* inference.kind is "none" without a model, "throw" when predict throws, else
\* "ok"; updThrows says whether the onUpdate callback throws (on too few
\* frames the call is made outside the try block and the exception leaves
\* the function as a rejected promise nobody handles).  With a model
\* the function is suspended at `await predict(...)` holding the statistics
\* of the window, and goes on in resumeWindow.
processWindow(buf, n, inference, updThrows) ==
  IF isInsufficient(buf) THEN
    Unchanged([NoEv EXCEPT !.closed = TRUE, !.frames = Len(buf),
                           !.reported = TRUE, !.label = INSUFFICIENT,
                           !.statuses = 1, !.uncaught = updThrows,
                           !.validFrames = Len(buf), !.idx = windowIndex])
  ELSE IF inference.kind = "throw" THEN
    Unchanged([NoEv EXCEPT !.closed = TRUE, !.frames = Len(buf),
                           !.inference = "throw"])
  ELSE IF inference.kind = "ok" THEN
    LET stats == computeWindowStatistics(buf)
    IN  [ Unchanged(NoEv) EXCEPT
            !.pend = [active |-> TRUE, frames |-> Len(buf), median |-> stats.median,
                      absMedian |-> stats.absMedian, pSlouch |-> inference.pSlouch] ]
  ELSE
    finishWindow(computeWindowStatistics(buf), Len(buf), Len(buf), windowIndex,
                 n, inference, updThrows)


(* ------------------------------------------------------------------ *)
(* Inputs                                                               *)
(* ------------------------------------------------------------------ *)
\* spine angles (thousandths of a degree) and frame qualities (thousandths)
\* of the frames the keypoint source delivers
Angles == {5000, 20000}
Weights == {1000}
Frames == [angle : Angles, weight : Weights]
\* getKeypoints() returned null or the frame was rejected
NoFrame == [angle |-> NullAngle, weight |-> 0]

\* slouch probabilities (thousandths) the model can return
SlouchProbs == {100, 400, 900}
NoInference == [kind |-> "none", pSlouch |-> 0]
Inferences ==
  {[kind |-> "throw", pSlouch |-> 0]} \cup {[kind |-> "ok", pSlouch |-> p] : p \in SlouchProbs}

\* snooze(minutes): minutes * 60 * 1000 for a quarter of a minute
SnoozeMs == {15000}

\* baselineAngle stored with the model: absent (0), or 8 degrees
MetaBaselines == {0, 8000}

\* relative angles (thousandths of a degree) of the windows fed whole
FeedRels == {2000, 6000, 11500, 11501, 15000}

\* relative angles of the frames forceInferOnce is called on
ForceRels == FeedRels \cup {5000}

\* summary of the windows closed since start(): their number, their common
\* median relative angle (Mixed when they differ), their labels, the alerts
\* raised, whether every status callback returned normally, and whether the
\* cooldown had run out when the detector was started
Mixed == MIN_ANGLE - 2
NoRun ==
  [n |-> 0, rel |-> Mixed, labels |-> << >>, alerts |-> 0, clean |-> TRUE, cool |-> TRUE]

(* ------------------------------------------------------------------ *)
(* Feature extraction (poseUtils)                                       *)
(* ------------------------------------------------------------------ *)
MIN_CONFIDENCE == 550
MAX_HISTORY == 5

\* a value that is NaN
NotANumber == -2

\* the keypoints the extraction requires, in the order it looks for them
Required == << "left_shoulder", "right_shoulder", "left_hip", "right_hip", "nose" >>

\* what getKeypoints() delivers: it throws, returns null, returns an object
\* that holds image data, or returns a pose.  A pose is given by the required
\* keypoints it lacks, the average confidence of the required keypoints, the
\* angle of its spine before smoothing, and its shoulder alignment score
\* (confidence and alignment in thousandths)
NoPose(kind) ==
  [kind |-> kind, missing |-> {}, confidence |-> 0, raw |-> 0, alignment |-> 0]
MissingSets ==
  { {}, {"nose"}, {"left_hip", "nose"}, {"right_shoulder"},
    {"left_shoulder", "right_shoulder", "left_hip", "right_hip", "nose"} }
RawAngles == {10000, 80000, NotANumber}
Poses ==
  [kind : {"pose"}, missing : {{}}, confidence : {900},
   raw : RawAngles, alignment : {400, 1000}]
  \cup [kind : {"pose"}, missing : MissingSets, confidence : {500, 900},
        raw : {10000}, alignment : {1000}]

\* no call of computeFeaturesFromKeypoints yet
NoResult ==
  [ kind |-> "none", missing |-> {}, polled |-> FALSE, features |-> FALSE,
    error |-> "none", point |-> "none", confidence |-> 0, spineAngle |-> 0,
    frameQuality |-> 0, added |-> 0 ]

\* angleHistory.push(combined), shift beyond MAX_HISTORY
pushAngle(hist, a) ==
  LET h == Append(hist, a) IN IF Len(h) > MAX_HISTORY THEN Tail(h) ELSE h

\* computeSpineAngle on a pose whose unsmoothed angle is raw: the new buffer
\* and the angle returned, min(median of the buffer, 90).  With a NaN in the
\* buffer the comparator a - b is inconsistent and the order after sort() is
\* up to the engine: the entry found in the middle is pick, if the buffer
\* holds it, else the one pushed.
computeSpineAngle(raw, hist, pick) ==
  LET h      == pushAngle(hist, raw)
      sorted == SortSeq(h, LAMBDA a, b : a < b)
      median == IF \E i \in DOMAIN h : h[i] = NotANumber
                THEN (IF \E i \in DOMAIN h : h[i] = pick THEN pick ELSE raw)
                ELSE sorted[(Len(h) \div 2) + 1]
  IN  [ hist |-> h,
        angle |-> IF median = NotANumber THEN NotANumber ELSE Min(median, 90000) ]

\* the result of a failed extraction
Rejected(error, point, hist) ==
  [ features |-> FALSE, confidence |-> 0, error |-> error, point |-> point,
    spineAngle |-> 0, frameQuality |-> 0, hist |-> hist ]

\* the first required keypoint that is not there
firstMissing(missing) ==
  Required[CHOOSE i \in DOMAIN Required :
             /\ Required[i] \in missing
             /\ \A j \in 1..(i - 1) : Required[j] \notin missing]

\* mutant: the spine angle is computed before the required keypoints are
\* looked for
computeFeaturesFromKeypoints_AngleFirst(kp, base, hist, pick) ==
  LET sa == computeSpineAngle(kp.raw, hist, pick)
  IN  IF kp.kind # "pose" THEN Rejected("Invalid keypoints object", "none", hist)
      ELSE IF kp.missing # {}
        THEN Rejected("Missing required keypoint", firstMissing(kp.missing), sa.hist)
      ELSE IF kp.confidence < MIN_CONFIDENCE
        THEN Rejected("Low confidence", "none", sa.hist)
      ELSE IF sa.angle # NotANumber /\ (sa.angle < MIN_ANGLE \/ sa.angle > MAX_ANGLE)
        THEN Rejected("Invalid spine angle", "none", sa.hist)
      ELSE IF sa.angle = NotANumber \/ base = NotANumber
        THEN Rejected("Invalid feature values computed", "none", sa.hist)
      ELSE [ features |-> TRUE, confidence |-> kp.confidence, error |-> "none",
             point |-> "none", spineAngle |-> sa.angle,
             frameQuality |-> Max(0, Min(1000, (kp.confidence * kp.alignment) \div 1000)),
             hist |-> sa.hist ]

\* computeFeaturesFromKeypoints(keypoints, baselineAngle) on the smoothing
\* buffer hist: the result and the buffer afterwards
computeFeaturesFromKeypoints(kp, base, hist, pick) ==
  IF kp.kind # "pose" THEN Rejected("Invalid keypoints object", "none", hist)
  ELSE IF kp.missing # {}
    THEN Rejected("Missing required keypoint", firstMissing(kp.missing), hist)
  ELSE IF kp.confidence < MIN_CONFIDENCE THEN Rejected("Low confidence", "none", hist)
  ELSE
    LET sa == computeSpineAngle(kp.raw, hist, pick)
    IN  IF sa.angle # NotANumber /\ (sa.angle < MIN_ANGLE \/ sa.angle > MAX_ANGLE)
          THEN Rejected("Invalid spine angle", "none", sa.hist)
        ELSE IF sa.angle = NotANumber \/ base = NotANumber
          THEN Rejected("Invalid feature values computed", "none", sa.hist)
        ELSE [ features |-> TRUE, confidence |-> kp.confidence, error |-> "none",
               point |-> "none", spineAngle |-> sa.angle,
               frameQuality |-> Max(0, Min(1000, (kp.confidence * kp.alignment) \div 1000)),
               hist |-> sa.hist ]

\* hasValidPose(keypoints, MIN_CONFIDENCE), which extracts the features with
\* the default baseline
hasValidPose(r) == r.confidence >= MIN_CONFIDENCE /\ r.features

\* the record kept of a result, with the number of samples the call added
\* to the window buffer
resultOf(kp, r, polled, added) ==
  [ kind |-> kp.kind, missing |-> kp.missing, polled |-> polled,
    features |-> r.features, error |-> r.error, point |-> r.point,
    confidence |-> r.confidence, spineAngle |-> r.spineAngle,
    frameQuality |-> r.frameQuality, added |-> added ]

(* ------------------------------------------------------------------ *)
(* Trainer data                                                         *)
(* ------------------------------------------------------------------ *)
MIN_SAMPLES_PER_CLASS == 20
FEATURE_COUNT == 5

\* normalizationStats === null
NoStats == [samples |-> 0]

\* new PostureTrainer()
NewTrainer ==
  [ datasets |-> [good |-> << >>, slouch |-> << >>],
    normalizationStats |-> NoStats,
    baselineAngle |-> NullAngle,
    model |-> FALSE,
    getKeypoints |-> FALSE,
    isRecording |-> FALSE,
    recordingData |-> << >>,
    currentLabel |-> "none",
    recordingTimer |-> 0 ]

\* nothing stored under DATASET_KEY
NoDataset == [stored |-> FALSE, good |-> << >>, slouch |-> << >>,
              normalizationStats |-> NoStats, baselineAngle |-> NullAngle]

NoTrainerEv ==
  [ op |-> "none", error |-> "none", built |-> FALSE, fitted |-> FALSE,
    goodRows |-> 0, slouchRows |-> 0, labelsOk |-> TRUE, saved |-> FALSE,
    roundTrip |-> FALSE ]

(* ------------------------------------------------------------------ *)
(* Storage data (storage.ml.js)                                         *)
(* ------------------------------------------------------------------ *)
\* nothing under the key: store.get gives undefined, localStorage.getItem null
NoValue == [present |-> FALSE, good |-> << >>, slouch |-> << >>]

\* new SimpleStorage(), storageInitialized = false, both backends empty.  idb
\* and ls are what IndexedDB and localStorage hold under the key; saved is
\* the dataset of the last saveDataset() that resolved, op the last call
\* ("save", "save failed" or "load"), via the backend that served it,
\* loaded what the last loadDataset() returned and readFailed whether the
\* IndexedDB read of that call failed
NewStorage ==
  [ storageInitialized |-> FALSE, isIndexedDBAvailable |-> FALSE, db |-> FALSE,
    idb |-> NoValue, ls |-> NoValue,
    op |-> "none", via |-> "none", saved |-> NoValue, loaded |-> NoValue,
    readFailed |-> FALSE ]

(* ------------------------------------------------------------------ *)
(* State machine                                                        *)
(* ------------------------------------------------------------------ *)
Init ==
  /\ now = T0
  /\ getKeypoints = FALSE
  /\ model = FALSE
  /\ baselineAngle = NullAngle
  /\ isRunning = FALSE
  /\ detectionTimer = FALSE
  /\ liveTimers = 0
  /\ windowHistory = << >>
  /\ currentWindow = << >>
  /\ windowStartTime = 0
  /\ windowIndex = 0
  /\ lastAlertTime = 0
  /\ isMuted = FALSE
  /\ snoozeUntil = 0
  /\ badPersistenceMs = 0
  /\ personalizedThresholds = NullThresholds
  /\ lastClassification = NoLabel
  /\ ev = NoEv
  /\ alertTimes = << >>
  /\ run = NoRun
  /\ ticks = 0
  /\ pending = NoPending
  /\ angleHistory = << >>
  /\ extracted = NoResult
  /\ trainer = NewTrainer
  /\ storage = NoDataset
  /\ trainerEv = NoTrainerEv
  /\ recClock = 0
  /\ recTimers = << >>
  /\ sessions = << >>
  /\ simpleStorage = NewStorage

\* computeFeaturesFromKeypoints: spineAngleRel = |spineAngle - baselineAngle|
\* (a null baseline counts as 0)
spineAngleRel(angle, base) == Abs(angle - (IF base = NullAngle THEN 0 ELSE base))

\* mutant: the alignment of the frame is not looked at
collectSample_IgnoresAlignment(buf, frame) ==
  IF frame = NoFrame THEN buf
  ELSE IF frame.angle < MIN_ANGLE \/ frame.angle > MAX_ANGLE THEN buf
  ELSE Append(buf, [angle |-> frame.angle,
                     angleRel |-> spineAngleRel(frame.angle, baselineAngle),
                     weight |-> frame.weight])

\* collectSample from the result of the extraction on: the buffer after one
\* poll of the keypoint source
collectSample(buf, frame) ==
  IF frame = NoFrame THEN buf
  ELSE IF frame.angle < MIN_ANGLE \/ frame.angle > MAX_ANGLE THEN buf
  ELSE IF frame.weight < MIN_ALIGNMENT_SCORE THEN buf
  ELSE Append(buf, [angle |-> frame.angle,
                     angleRel |-> spineAngleRel(frame.angle, baselineAngle),
                     weight |-> frame.weight])

\* mutant: a window is closed after twice its length
windowElapsed_Late(n, start) == (n - start) >= 2 * SAMPLING_WINDOW_MS

\* checkWindowComplete: is the window over at time n
windowElapsed(n, start) == (n - start) >= SAMPLING_WINDOW_MS

\* initDetector / init / loadTrainedModel
initDetector(loaded, hasMeta, metaBaseline) ==
  /\ getKeypoints' = TRUE
  /\ model' = loaded
  /\ baselineAngle' =
       IF loaded
       THEN (IF hasMeta THEN OrDefault(metaBaseline, BASELINE_ANGLE) ELSE baselineAngle)
       ELSE BASELINE_ANGLE
  /\ ev' = NoEv
  /\ UNCHANGED << now, isRunning, detectionTimer, liveTimers, windowHistory, currentWindow,
                  windowStartTime, windowIndex, lastAlertTime, isMuted, snoozeUntil,
                  badPersistenceMs, personalizedThresholds, lastClassification,
                  alertTimes, run, ticks, pending >>
  /\ UNCHANGED << poseVars, trainerVars >>

\* mutant: start() does not look at isRunning
startDetector_NoGuard(updThrows) ==
  /\ getKeypoints
  /\ ev' = [NoEv EXCEPT !.messages = 1]
  /\ isRunning' = TRUE
  /\ windowHistory' = << >>
  /\ currentWindow' = << >>
  /\ windowStartTime' = now
  /\ windowIndex' = 0
  /\ badPersistenceMs' = 0
  /\ personalizedThresholds' = NullThresholds
  /\ lastClassification' = NoLabel
  /\ detectionTimer' = TRUE
  /\ liveTimers' = liveTimers + 1
  /\ run' = [NoRun EXCEPT !.cool = (now - lastAlertTime >= ALERT_COOLDOWN_MS)]
  /\ UNCHANGED << now, getKeypoints, model, baselineAngle, lastAlertTime, isMuted,
                  snoozeUntil, alertTimes, ticks, pending >>
  /\ UNCHANGED << poseVars, trainerVars >>

\* startDetector; updThrows says whether the onUpdate callback throws on the
\* 'Detector started' message, which is sent before startDetectionLoop is called
startDetector(updThrows) ==
  /\ getKeypoints
  /\ ev' = [NoEv EXCEPT !.messages = 1]
  /\ IF isRunning
     THEN UNCHANGED << isRunning, detectionTimer, liveTimers, windowHistory, currentWindow,
                       windowStartTime, windowIndex, badPersistenceMs,
                       personalizedThresholds, lastClassification, run >>
     ELSE /\ isRunning' = TRUE
          /\ windowHistory' = << >>
          /\ currentWindow' = << >>
          /\ windowStartTime' = now
          /\ windowIndex' = 0
          /\ badPersistenceMs' = 0
          /\ personalizedThresholds' = NullThresholds
          /\ lastClassification' = NoLabel
          /\ IF updThrows
             THEN UNCHANGED << detectionTimer, liveTimers >>
             ELSE /\ detectionTimer' = TRUE
                  /\ liveTimers' = liveTimers + 1
          /\ run' = [NoRun EXCEPT !.cool = (now - lastAlertTime >= ALERT_COOLDOWN_MS)]
  /\ UNCHANGED << now, getKeypoints, model, baselineAngle, lastAlertTime, isMuted,
                  snoozeUntil, alertTimes, ticks, pending >>
  /\ UNCHANGED << poseVars, trainerVars >>

\* mutant: stop() does not look at isRunning
stopDetector_NoGuard ==
  /\ ev' = [NoEv EXCEPT !.messages = 1]
  /\ isRunning' = FALSE
  /\ detectionTimer' = FALSE
  /\ liveTimers' = IF detectionTimer THEN liveTimers - 1 ELSE liveTimers
  /\ currentWindow' = << >>
  /\ windowStartTime' = 0
  /\ UNCHANGED << now, getKeypoints, model, baselineAngle, windowHistory, windowIndex,
                  lastAlertTime, isMuted, snoozeUntil, badPersistenceMs,
                  personalizedThresholds, lastClassification, alertTimes, run, ticks,
                  pending >>
  /\ UNCHANGED << poseVars, trainerVars >>

\* stopDetector, and the module's stopDetector() without an instance; the
\* 'Detector stopped' message is the last statement of a stop that acts
stopDetector ==
  /\ ev' = IF isRunning THEN [NoEv EXCEPT !.messages = 1] ELSE NoEv
  /\ IF ~isRunning
     THEN UNCHANGED << isRunning, detectionTimer, liveTimers, currentWindow, windowStartTime >>
     ELSE /\ isRunning' = FALSE
          /\ detectionTimer' = FALSE
          /\ liveTimers' = IF detectionTimer THEN liveTimers - 1 ELSE liveTimers
          /\ currentWindow' = << >>
          /\ windowStartTime' = 0
  /\ UNCHANGED << now, getKeypoints, model, baselineAngle, windowHistory, windowIndex,
                  lastAlertTime, isMuted, snoozeUntil, badPersistenceMs,
                  personalizedThresholds, lastClassification, alertTimes, run, ticks, pending >>
  /\ UNCHANGED << poseVars, trainerVars >>

mute(muted) ==
  /\ getKeypoints
  /\ isMuted' = muted
  /\ ev' = NoEv
  /\ UNCHANGED << now, getKeypoints, model, baselineAngle, isRunning, detectionTimer, liveTimers,
                  windowHistory, currentWindow, windowStartTime, windowIndex,
                  lastAlertTime, snoozeUntil, badPersistenceMs, personalizedThresholds,
                  lastClassification, alertTimes, run, ticks, pending >>
  /\ UNCHANGED << poseVars, trainerVars >>

snooze(ms) ==
  /\ getKeypoints
  /\ snoozeUntil' = now + ms
  /\ ev' = NoEv
  /\ UNCHANGED << now, getKeypoints, model, baselineAngle, isRunning, detectionTimer, liveTimers,
                  windowHistory, currentWindow, windowStartTime, windowIndex,
                  lastAlertTime, isMuted, badPersistenceMs, personalizedThresholds,
                  lastClassification, alertTimes, run, ticks, pending >>
  /\ UNCHANGED << poseVars, trainerVars >>

\* forceInferOnce on a frame whose spine angle is rel away from the baseline
forceInferOnce(rel) ==
  /\ getKeypoints
  /\ lastClassification' =
       thresholdClassification(rel, personalizedThresholds, lastClassification).last
  /\ ev' = NoEv
  /\ UNCHANGED << now, getKeypoints, model, baselineAngle, isRunning, detectionTimer, liveTimers,
                  windowHistory, currentWindow, windowStartTime, windowIndex,
                  lastAlertTime, isMuted, snoozeUntil, badPersistenceMs,
                  personalizedThresholds, alertTimes, run, ticks, pending >>
  /\ UNCHANGED << poseVars, trainerVars >>

\* the timer callback of startDetectionLoop: collectSample, checkWindowComplete
Tick(frame, inference, updThrows) ==
  /\ liveTimers > 0
  /\ ~pending.active
  /\ isRunning
  /\ ticks < MaxTicks
  /\ ticks' = ticks + 1
  /\ now' = now + TickGap
  /\ \E buf \in {collectSample(currentWindow, frame)} :
         IF windowStartTime = 0 THEN
           /\ windowStartTime' = now'
           /\ currentWindow' = buf
           /\ ev' = NoEv
           /\ UNCHANGED << windowHistory, windowIndex, lastAlertTime, badPersistenceMs,
                           personalizedThresholds, lastClassification, baselineAngle,
                           alertTimes, pending >>
         ELSE IF windowElapsed(now', windowStartTime) THEN
           \E r \in {processWindow(buf, now', inference, updThrows)} :
               /\ windowHistory' = r.hist
               /\ lastClassification' = r.last
               /\ personalizedThresholds' = r.pt
               /\ baselineAngle' = r.base
               /\ badPersistenceMs' = r.bp
               /\ lastAlertTime' = r.lat
               /\ ev' = r.ev
               /\ pending' = r.pend
               /\ alertTimes' = IF r.ev.alerts > 0 THEN Append(alertTimes, now')
                                ELSE alertTimes
               /\ currentWindow' = << >>
               /\ windowStartTime' = now'
               /\ windowIndex' = windowIndex + 1
         ELSE
           /\ currentWindow' = buf
           /\ ev' = NoEv
           /\ UNCHANGED << windowStartTime, windowHistory, windowIndex, lastAlertTime,
                           badPersistenceMs, personalizedThresholds, lastClassification,
                           baselineAngle, alertTimes, pending >>
  /\ UNCHANGED << getKeypoints, model, isRunning, detectionTimer, liveTimers, isMuted, snoozeUntil,
                  run >>
  /\ UNCHANGED << poseVars, trainerVars >>

\* an idle period passes while no timer is installed
ClockAdvance ==
  /\ liveTimers = 0
  /\ ~pending.active
  /\ now + IdleMs <= T0 + MaxTime
  /\ now' = now + IdleMs
  /\ ev' = NoEv
  /\ UNCHANGED << getKeypoints, model, baselineAngle, isRunning, detectionTimer, liveTimers,
                  windowHistory, currentWindow, windowStartTime, windowIndex,
                  lastAlertTime, isMuted, snoozeUntil, badPersistenceMs,
                  personalizedThresholds, lastClassification, alertTimes, run, ticks, pending >>
  /\ UNCHANGED << poseVars, trainerVars >>

\* the inputs of a tick that matter in the current state
TickStep ==
  \E frame \in Frames \cup {NoFrame} :
    LET closes == windowStartTime # 0 /\ windowElapsed(now + TickGap, windowStartTime)
        full   == ~isInsufficient(collectSample(currentWindow, frame))
    IN  \E inference \in (IF closes /\ full /\ model THEN Inferences ELSE {NoInference}) :
          \E updThrows \in (IF closes THEN BOOLEAN ELSE {FALSE}) :
            Tick(frame, inference, updThrows)

\* the detector in threshold mode (no trained model stored), driven by its timer
Next ==
  \/ initDetector(FALSE, FALSE, 0)
  \/ \E updThrows \in BOOLEAN : startDetector(updThrows)
  \/ stopDetector
  \/ \E muted \in BOOLEAN : mute(muted)
  \/ \E ms \in SnoozeMs : snooze(ms)
  \/ TickStep
  \/ ClockAdvance

Spec == Init /\ [][Next]_vars

(* ------------------------------------------------------------------ *)
(* Window-level driver: the ticks of one window taken together          *)
(* ------------------------------------------------------------------ *)
RECURSIVE collectAll(_, _)
\* collectSample over the frames of one window
collectAll(buf, frames) ==
  IF frames = << >> THEN buf
  ELSE collectAll(collectSample(buf, Head(frames)), Tail(frames))

\* the frames of a window: count frames at relative angle rel (spine angle
\* rel away from the baseline) and full quality, then outliers frames at
\* relative angle 0 and the lowest accepted quality
windowFrames(rel, count, outliers) ==
  LET base == IF baselineAngle = NullAngle THEN 0 ELSE baselineAngle
  IN  [i \in 1..count |-> [angle |-> base + rel, weight |-> 1000]]
        \o [i \in 1..outliers |-> [angle |-> base, weight |-> MIN_ALIGNMENT_SCORE]]

\* the summary of the run after a window with median m
extendRun(r, m, e, threw) ==
  [ n      |-> r.n + 1,
    rel    |-> IF r.n = 0 \/ r.rel = m THEN m ELSE Mixed,
    labels |-> IF r.n = 0 \/ r.rel = m THEN Append(r.labels, e.label) ELSE << >>,
    alerts |-> r.alerts + e.alerts,
    clean  |-> r.clean /\ ~threw,
    cool   |-> r.cool ]

\* one whole window: its ticks collect the frames, the last one closes it
\* SAMPLING_WINDOW_MS after it started
FeedWindow(rel, count, outliers, inference, updThrows) ==
  /\ liveTimers > 0
  /\ ~pending.active
  /\ isRunning
  /\ ticks < MaxFeeds
  /\ ticks' = ticks + 1
  /\ now' = now + SAMPLING_WINDOW_MS
  /\ \E buf \in {collectAll(currentWindow, windowFrames(rel, count, outliers))} :
       \E r \in {processWindow(buf, now', inference, updThrows)} :
         /\ windowHistory' = r.hist
         /\ lastClassification' = r.last
         /\ personalizedThresholds' = r.pt
         /\ baselineAngle' = r.base
         /\ badPersistenceMs' = r.bp
         /\ lastAlertTime' = r.lat
         /\ ev' = r.ev
         /\ pending' = r.pend
         /\ alertTimes' = IF r.ev.alerts > 0 THEN Append(alertTimes, now') ELSE alertTimes
         /\ run' = IF r.pend.active THEN run
                   ELSE IF r.ev.recorded THEN extendRun(run, r.ev.median, r.ev, updThrows)
                   ELSE [run EXCEPT !.rel = Mixed, !.labels = << >>, !.n = @ + 1,
                                    !.clean = @ /\ ~updThrows]
         /\ currentWindow' = << >>
         /\ windowStartTime' = now'
         /\ windowIndex' = windowIndex + 1
  /\ UNCHANGED << getKeypoints, model, isRunning, detectionTimer, liveTimers, isMuted, snoozeUntil >>
  /\ UNCHANGED << poseVars, trainerVars >>

\* the windows fed: <<count, outliers>>, two frames (too few) or five frames
\* of which two are outliers
WindowShapes == {<<2, 0>>, <<3, 2>>}

FeedStep ==
  \E rel \in FeedRels, shape \in WindowShapes :
    LET count == shape[1]
        outliers == shape[2]
        full == count + outliers >= MIN_VALID_FRAMES
    IN  \E inference \in (IF full /\ model THEN Inferences ELSE {NoInference}) :
          \E updThrows \in (IF full THEN BOOLEAN ELSE {FALSE}) :
            FeedWindow(rel, count, outliers, inference, updThrows)

\* the detector in threshold mode fed whole windows
NextFeed ==
  \/ initDetector(FALSE, FALSE, 0)
  \/ \E updThrows \in BOOLEAN : startDetector(updThrows)
  \/ stopDetector
  \/ \E rel \in ForceRels : forceInferOnce(rel)
  \/ FeedStep

SpecFeed == Init /\ [][NextFeed]_vars

(* ------------------------------------------------------------------ *)
(* The detector with a trained model stored, fed whole windows          *)
(* ------------------------------------------------------------------ *)
\* relative angles of the windows fed to the detector with a model
ModelRels == {2000, 6000, 15000}

ModelStep ==
  /\ ticks < MaxModelFeeds
  /\ \E rel \in ModelRels, shape \in WindowShapes :
       LET full == shape[1] + shape[2] >= MIN_VALID_FRAMES
       IN  \E inference \in (IF full /\ model THEN Inferences ELSE {NoInference}) :
             FeedWindow(rel, shape[1], shape[2], inference, FALSE)

\* processWindow after `await predict(...)`: the rest of the function runs
\* as a promise continuation, on the detector as it is by then
resumeWindow(updThrows) ==
  /\ pending.active
  /\ pending' = NoPending
  /\ \E r \in {finishWindow([median |-> pending.median, absMedian |-> pending.absMedian],
                             pending.frames, Len(currentWindow), windowIndex, now,
                             [kind |-> "ok", pSlouch |-> pending.pSlouch], updThrows)} :
       /\ windowHistory' = r.hist
       /\ lastClassification' = r.last
       /\ personalizedThresholds' = r.pt
       /\ baselineAngle' = r.base
       /\ badPersistenceMs' = r.bp
       /\ lastAlertTime' = r.lat
       /\ ev' = r.ev
       /\ alertTimes' = IF r.ev.alerts > 0 THEN Append(alertTimes, now) ELSE alertTimes
       /\ run' = extendRun(run, r.ev.median, r.ev, updThrows)
  /\ UNCHANGED << now, getKeypoints, model, isRunning, detectionTimer, liveTimers,
                  currentWindow, windowStartTime, windowIndex, isMuted, snoozeUntil, ticks >>
  /\ UNCHANGED << poseVars, trainerVars >>

NextModel ==
  \/ \E hasMeta \in BOOLEAN, metaBaseline \in MetaBaselines :
       initDetector(TRUE, hasMeta, metaBaseline)
  \/ \E updThrows \in BOOLEAN : startDetector(updThrows)
  \/ stopDetector
  \/ ModelStep
  \/ resumeWindow(FALSE)

SpecModel == Init /\ [][NextModel]_vars


(* ------------------------------------------------------------------ *)
(* updateAdaptiveBaseline over the whole range of window medians        *)
(* ------------------------------------------------------------------ *)
\* window medians from MIN_ANGLE to MAX_ANGLE
Medians == { m \in MIN_ANGLE..MAX_ANGLE : m % MedianStep = 0 }

\* updateAdaptiveBaseline applied to a window whose median relative angle is
\* median and whose median absolute angle lies median above the baseline
BaselineUpdate(median) ==
  /\ ticks < MaxUpdates
  /\ ticks' = ticks + 1
  /\ \E upd \in {updateAdaptiveBaseline(
                    [median |-> median,
                     absMedian |-> median + (IF baselineAngle = NullAngle THEN 0
                                              ELSE baselineAngle)],
                    baselineAngle)} :
       /\ baselineAngle' = upd.baseline
       /\ personalizedThresholds' = upd.thresholds
  /\ ev' = [NoEv EXCEPT !.median = median]
  /\ UNCHANGED << now, getKeypoints, model, isRunning, detectionTimer, liveTimers, windowHistory,
                  currentWindow, windowStartTime, windowIndex, lastAlertTime, isMuted,
                  snoozeUntil, badPersistenceMs, lastClassification, alertTimes, run,
                  pending >>
  /\ UNCHANGED << poseVars, trainerVars >>

NextBaseline == \E median \in Medians : BaselineUpdate(median)

SpecBaseline == Init /\ [][NextBaseline]_vars

(* ------------------------------------------------------------------ *)
(* Sampling: the keypoint source polled, the features extracted         *)
(* ------------------------------------------------------------------ *)
MaxSamples == 2

\* baselines computeFeaturesFromKeypoints is called with: the default, and a
\* value that is not a number
ExtractBaselines == {BASELINE_ANGLE, NotANumber}

\* one poll of collectSample on what getKeypoints() delivers.  hasValidPose
\* extracts the features once (default baseline), collectSample a second
\* time (baseline of the detector); pick1 and pick2 resolve the two sorts.
PollKeypoints(kp, pick1, pick2) ==
  /\ isRunning
  /\ Len(currentWindow) < MaxSamples
  /\ LET early == kp.kind \in {"throw", "null", "image"}
         r1    == computeFeaturesFromKeypoints(kp, BASELINE_ANGLE, angleHistory, pick1)
         r2    == computeFeaturesFromKeypoints(kp, baselineAngle, r1.hist, pick2)
         r     == IF early THEN Rejected("none", "none", angleHistory)
                  ELSE IF ~hasValidPose(r1) THEN r1
                  ELSE r2
         frame == IF ~r.features \/ r.confidence < MIN_CONFIDENCE THEN NoFrame
                  ELSE [angle |-> r.spineAngle, weight |-> Max(1, r.frameQuality)]
     IN  /\ angleHistory' = r.hist
         /\ currentWindow' = collectSample(currentWindow, frame)
         /\ extracted' = resultOf(kp, r, TRUE, Len(currentWindow') - Len(currentWindow))
  /\ ev' = NoEv
  /\ UNCHANGED << now, getKeypoints, model, baselineAngle, isRunning, detectionTimer,
                  liveTimers, windowHistory, windowStartTime, windowIndex, lastAlertTime,
                  isMuted, snoozeUntil, badPersistenceMs, personalizedThresholds,
                  lastClassification, alertTimes, run, ticks, pending >>
  /\ UNCHANGED trainerVars

\* computeFeaturesFromKeypoints called on its own
ExtractFeatures(kp, base, pick) ==
  /\ \E r \in {computeFeaturesFromKeypoints(kp, base, angleHistory, pick)} :
       /\ angleHistory' = r.hist
       /\ extracted' = resultOf(kp, r, FALSE, 0)
  /\ UNCHANGED << detectorVars, trainerVars >>

\* what getKeypoints() can deliver
Polled == Poses \cup {NoPose("throw"), NoPose("null"), NoPose("image")}

\* the outcomes of a sort that matter: one when no NaN is involved
Picks(kp) ==
  IF kp.raw = NotANumber \/ \E i \in DOMAIN angleHistory : angleHistory[i] = NotANumber
  THEN RawAngles ELSE {kp.raw}

PollStep ==
  \E kp \in Polled : \E pick1, pick2 \in Picks(kp) : PollKeypoints(kp, pick1, pick2)

ExtractStep ==
  \E kp \in Poses \cup {NoPose("null")}, base \in ExtractBaselines :
    \E pick \in Picks(kp) : ExtractFeatures(kp, base, pick)

\* computeFeaturesFromKeypoints called again and again
NextPose == ExtractStep

SpecPose == Init /\ [][NextPose]_vars

\* the detector in threshold mode polling its keypoint source
NextSampling ==
  \/ initDetector(FALSE, FALSE, 0)
  \/ startDetector(FALSE)
  \/ stopDetector
  \/ PollStep

SpecSampling == Init /\ [][NextSampling]_vars

(* ------------------------------------------------------------------ *)
(* Trainer: train, exportDataset, importDataset                         *)
(* ------------------------------------------------------------------ *)
\* n samples of one kind.  A sample is "ok" (an array of FEATURE_COUNT
\* numbers), "nan" (such an array with a NaN in it), "null" (such an array
\* with a null in it) or "short" (an array of another length)
Rep(kind, n) == [i \in 1..n |-> kind]

WellFormed(sample) == sample \in {"ok", "nan", "null"}

\* mutant: training is allowed when one class has enough samples
getDatasetStats_EitherClass(datasets) ==
  [ good |-> Len(datasets.good), slouch |-> Len(datasets.slouch),
    canTrain |-> Len(datasets.good) >= MIN_SAMPLES_PER_CLASS
                 \/ Len(datasets.slouch) >= MIN_SAMPLES_PER_CLASS ]

getDatasetStats(datasets) ==
  [ good |-> Len(datasets.good), slouch |-> Len(datasets.slouch),
    canTrain |-> Len(datasets.good) >= MIN_SAMPLES_PER_CLASS
                 /\ Len(datasets.slouch) >= MIN_SAMPLES_PER_CLASS ]

\* computeNormalizationStats(allFeatures) -> {means, stds}: statistics over
\* the samples given, told apart by their number
computeNormalizationStats(allFeatures) == [samples |-> Len(allFeatures)]

\* prepareTrainingData: a feature row and a one-hot label for every sample
\* that is an array of FEATURE_COUNT entries, the good ones first
prepareTrainingData(datasets) ==
  LET good   == SelectSeq(datasets.good, WellFormed)
      slouch == SelectSeq(datasets.slouch, WellFormed)
  IN  [ features |-> good \o slouch,
        labels   |-> [i \in 1..Len(good) |-> << 1, 0 >>]
                       \o [i \in 1..Len(slouch) |-> << 0, 1 >>],
        goodRows |-> Len(good), slouchRows |-> Len(slouch) ]

\* trainModel: the error it throws, "none" when the model is fitted
trainModel(td, fitFails) ==
  IF Len(td.features) # Len(td.labels) THEN "Invalid training data format"
  ELSE IF Len(td.features) < MIN_SAMPLES_PER_CLASS * 2
    THEN "Insufficient training data (total)"
  ELSE IF fitFails THEN "fit failed"
  ELSE "none"

\* mutant: samples with a NaN are left out of the text
stringify_DropsNaN(samples) == SelectSeq(samples, LAMBDA x : x # "nan")

\* JSON.stringify on a list of samples: NaN is written as null
stringify(samples) ==
  [i \in DOMAIN samples |-> IF samples[i] = "nan" THEN "null" ELSE samples[i]]

\* v || null
OrNull(v) == IF v = 0 THEN NullAngle ELSE v

\* exportDataset(): the text, as what JSON.parse makes of it
exportDataset(t) ==
  [ kind |-> "json", hasDatasets |-> TRUE, hasGood |-> TRUE, hasSlouch |-> TRUE,
    good |-> stringify(t.datasets.good), slouch |-> stringify(t.datasets.slouch),
    normalizationStats |-> t.normalizationStats, baselineAngle |-> t.baselineAngle ]

\* the datasets of the texts imported
PayloadDatasets ==
  { [good |-> << >>, slouch |-> << >>],
    [good |-> Rep("ok", MIN_SAMPLES_PER_CLASS - 5),
     slouch |-> Rep("ok", MIN_SAMPLES_PER_CLASS + 5)],
    [good |-> Rep("ok", MIN_SAMPLES_PER_CLASS),
     slouch |-> Rep("ok", MIN_SAMPLES_PER_CLASS - 1)],
    [good |-> Rep("ok", MIN_SAMPLES_PER_CLASS),
     slouch |-> Rep("ok", MIN_SAMPLES_PER_CLASS)],
    [good |-> Rep("ok", MIN_SAMPLES_PER_CLASS) \o << "nan" >>,
     slouch |-> Rep("ok", MIN_SAMPLES_PER_CLASS)],
    [good |-> Rep("ok", MIN_SAMPLES_PER_CLASS) \o Rep("short", 5),
     slouch |-> Rep("ok", MIN_SAMPLES_PER_CLASS + 5)],
    [good |-> Rep("short", MIN_SAMPLES_PER_CLASS) \o Rep("ok", 2),
     slouch |-> Rep("ok", MIN_SAMPLES_PER_CLASS)] }

\* the texts given to importDataset: not JSON, JSON without datasets, without
\* datasets.good, without datasets.slouch, and well-formed ones
Payloads ==
  [ kind : {"garbage"}, hasDatasets : {FALSE}, hasGood : {FALSE}, hasSlouch : {FALSE},
    good : {<< >>}, slouch : {<< >>}, normalizationStats : {NoStats},
    baselineAngle : {NullAngle} ]
  \cup
  { [ kind |-> "json", hasDatasets |-> f[1], hasGood |-> f[2], hasSlouch |-> f[3],
      good |-> Rep("ok", MIN_SAMPLES_PER_CLASS), slouch |-> Rep("ok", MIN_SAMPLES_PER_CLASS),
      normalizationStats |-> NoStats, baselineAngle |-> 8000 ] :
      f \in { << FALSE, FALSE, FALSE >>, << TRUE, FALSE, TRUE >>, << TRUE, TRUE, FALSE >> } }
  \cup
  { [ kind |-> "json", hasDatasets |-> TRUE, hasGood |-> TRUE, hasSlouch |-> TRUE,
      good |-> d.good, slouch |-> d.slouch,
      normalizationStats |-> NoStats, baselineAngle |-> b ] :
      d \in PayloadDatasets, b \in {0, 8000} }

\* PostureTrainer.saveDataset and storage.saveDataset: the dataset stored
saveDataset(t) ==
  [ stored |-> TRUE, good |-> t.datasets.good, slouch |-> t.datasets.slouch,
    normalizationStats |-> t.normalizationStats, baselineAngle |-> t.baselineAngle ]

\* train(); fitFails says whether model.fit throws
train(fitFails) ==
  LET stats == getDatasetStats(trainer.datasets)
      all   == trainer.datasets.good \o trainer.datasets.slouch
      td    == prepareTrainingData(trainer.datasets)
      error == trainModel(td, fitFails)
  IN  /\ IF ~stats.canTrain THEN
           /\ trainerEv' = [NoTrainerEv EXCEPT !.op = "train",
                                               !.error = "Insufficient training data"]
           /\ UNCHANGED trainer
         ELSE
           /\ trainer' = [trainer EXCEPT
                            !.normalizationStats = computeNormalizationStats(all),
                            !.model = IF error = "none" THEN TRUE ELSE @]
           /\ trainerEv' = [NoTrainerEv EXCEPT
                              !.op = "train", !.error = error, !.built = TRUE,
                              !.fitted = (error = "none"),
                              !.goodRows = IF error = "none" THEN td.goodRows ELSE 0,
                              !.slouchRows = IF error = "none" THEN td.slouchRows ELSE 0,
                              !.labelsOk =
                                 \A i \in DOMAIN td.labels :
                                    td.labels[i] = IF i <= td.goodRows THEN << 1, 0 >>
                                                   ELSE << 0, 1 >>,
                              !.saved = (error = "none")]
      /\ UNCHANGED << storage, detectorVars, poseVars, recClock, recTimers, sessions,
                      simpleStorage >>

\* importDataset(jsonString); writeFails says whether the write to storage
\* throws; roundTrip marks the text as the one exportDataset() returns
importDataset(payload, writeFails, roundTrip) ==
  LET error == IF payload.kind # "json" THEN "parse error"
               ELSE IF ~payload.hasDatasets \/ ~payload.hasGood \/ ~payload.hasSlouch
                 THEN "Invalid dataset format"
               ELSE IF writeFails THEN "storage error"
               ELSE "none"
      t     == [trainer EXCEPT
                  !.datasets = [good |-> payload.good, slouch |-> payload.slouch],
                  !.normalizationStats = payload.normalizationStats,
                  !.baselineAngle = OrNull(payload.baselineAngle)]
  IN  /\ trainerEv' = [NoTrainerEv EXCEPT !.op = "import", !.error = error,
                                          !.roundTrip = roundTrip]
      /\ trainer' = IF error \in {"parse error", "Invalid dataset format"}
                    THEN trainer ELSE t
      /\ storage' = IF error = "none" THEN saveDataset(t) ELSE storage
      /\ UNCHANGED << detectorVars, poseVars, recClock, recTimers, sessions, simpleStorage >>

TrainStep == \E fitFails \in BOOLEAN : train(fitFails)

ImportStep ==
  \E payload \in Payloads, writeFails \in BOOLEAN : importDataset(payload, writeFails, FALSE)

\* importDataset(exportDataset())
RoundTripStep ==
  \E writeFails \in BOOLEAN : importDataset(exportDataset(trainer), writeFails, TRUE)

NextTrainer ==
  \/ TrainStep
  \/ ImportStep
  \/ RoundTripStep

SpecTrainer == Init /\ [][NextTrainer]_vars

(* ------------------------------------------------------------------ *)
(* Trainer: recording sessions (startRecording, stopRecording)          *)
(* ------------------------------------------------------------------ *)
\* sampleInterval of startRecording
SAMPLE_INTERVAL == 500

\* the clock of the recording model moves in steps of ClockStep ms
ClockStep == 250
\* and stops at MaxRecClock
MaxRecClock == 1500
\* number of sessions started
MaxSessions == 2

\* durationMs of the sessions recorded
Durations == {1000, 1500}

\* labels startRecording is called with ("other" is not a posture label)
RecordLabels == {"good", "slouch", "other"}

\* what the trainer's getKeypoints() delivers
RecordPoses ==
  { NoPose("null"),
    [kind |-> "pose", missing |-> {}, confidence |-> 900, raw |-> 10000, alignment |-> 1000] }

\* the caller of finishRecording when it is stopRecording()
StopCall == 0
\* the session has not been ended
NotEnded == -1

\* the recording side of the program: the trainer, what its sessions hold,
\* the timeouts, the smoothing buffer of the extraction, the storage and the
\* value the last finishRecording() call resolved to
RecState ==
  [ trainer |-> trainer, sessions |-> sessions, timers |-> recTimers,
    hist |-> angleHistory, storage |-> storage, result |-> "none", count |-> 0,
    error |-> "none" ]

\* finishRecording() called from a callback of session by (StopCall for
\* stopRecording): it ends whatever session is active
finishRecording(st, by) ==
  LET t == st.trainer
      a == Len(st.sessions)
  IN  IF ~t.isRecording THEN [st EXCEPT !.result = "null"]
      ELSE IF Len(t.recordingData) = 0 THEN
        [st EXCEPT !.trainer.isRecording = FALSE,
                   !.sessions[a].endedBy = by,
                   !.result = "count", !.count = 0]
      ELSE
        LET t1 == [t EXCEPT !.isRecording = FALSE,
                            !.datasets[t.currentLabel] = @ \o t.recordingData]
        IN  [st EXCEPT !.trainer = t1,
                       !.storage = saveDataset(t1),
                       !.sessions[a].endedBy = by,
                       !.sessions[a].appended = @ + Len(t.recordingData),
                       !.result = "count", !.count = Len(t.recordingData)]

\* the collectSample closure of session s run at time clock: one poll of the
\* keypoint source, then the next timeout or finishRecording().  The features
\* are extracted with an object in the place of the baseline angle, which is
\* not a number in the subtraction.
recordSample(st, s, kp, clock) ==
  IF ~st.trainer.isRecording THEN st
  ELSE
    LET a   == Len(st.sessions)
        r   == IF kp.kind = "null" THEN Rejected("none", "none", st.hist)
               ELSE computeFeaturesFromKeypoints(kp, NotANumber, st.hist, kp.raw)
        ok  == r.features /\ r.confidence > MIN_CONFIDENCE
        st1 == [st EXCEPT
                  !.hist = r.hist,
                  !.trainer.recordingData = IF ok THEN Append(@, "ok") ELSE @,
                  !.sessions[s].sampleCount = @ + 1,
                  !.sessions[a].accepted = @ + (IF r.features THEN 1 ELSE 0),
                  !.sessions[a].polls = @ + 1,
                  !.sessions[a].foreign = @ + (IF s # a THEN 1 ELSE 0)]
    IN  IF st1.sessions[s].sampleCount < st1.sessions[s].total
        THEN [st1 EXCEPT !.timers = Append(@, [kind |-> "sample", session |-> s,
                                                due |-> clock + SAMPLE_INTERVAL,
                                                state |-> "pending"])]
        ELSE finishRecording(st1, s)

\* a session as startRecording begins it
NewSession(label, durationMs) ==
  [ label |-> label, total |-> durationMs \div SAMPLE_INTERVAL, sampleCount |-> 0,
    polls |-> 0, accepted |-> 0, foreign |-> 0, appended |-> 0, endedBy |-> NotEnded,
    resolved |-> "pending", count |-> 0 ]

\* the state goes into the variables
Recorded(st, op) ==
  /\ trainer' = st.trainer
  /\ sessions' = st.sessions
  /\ recTimers' = st.timers
  /\ angleHistory' = st.hist
  /\ storage' = st.storage
  /\ trainerEv' = [NoTrainerEv EXCEPT !.op = op, !.error = st.error]
  /\ UNCHANGED << detectorVars, extracted, simpleStorage >>

\* initTrainer({getKeypoints})
initTrainer ==
  /\ Recorded([RecState EXCEPT !.trainer.getKeypoints = TRUE], "init")
  /\ UNCHANGED recClock

\* startRecording(label, durationMs); kp is what the first poll delivers
startRecording(label, durationMs, kp) ==
  /\ Len(sessions) < MaxSessions
  /\ UNCHANGED recClock
  /\ IF ~trainer.getKeypoints
       THEN Recorded([RecState EXCEPT !.error = "Trainer not initialized"], "startRecording")
     ELSE IF trainer.isRecording
       THEN Recorded([RecState EXCEPT !.error = "Already recording"], "startRecording")
     ELSE IF label \notin {"good", "slouch"}
       THEN Recorded([RecState EXCEPT !.error = "Label must be good or slouch"],
                     "startRecording")
     ELSE
       LET s   == Len(sessions) + 1
           st0 == [RecState EXCEPT
                     !.trainer.isRecording = TRUE,
                     !.trainer.currentLabel = label,
                     !.trainer.recordingData = << >>,
                     !.sessions = Append(@, NewSession(label, durationMs))]
           st1 == recordSample(st0, s, kp, recClock)
           st2 == [st1 EXCEPT
                     !.timers = Append(@, [kind |-> "duration", session |-> s,
                                           due |-> recClock + durationMs,
                                           state |-> "pending"]),
                     !.trainer.recordingTimer = Len(st1.timers) + 1]
       IN  Recorded(st2, "startRecording")

\* stopRecording()
stopRecording ==
  /\ UNCHANGED recClock
  /\ IF ~trainer.isRecording THEN Recorded(RecState, "stopRecording")
     ELSE
       LET st0 == IF trainer.recordingTimer # 0
                  THEN [RecState EXCEPT
                          !.timers[trainer.recordingTimer].state =
                             IF @ = "pending" THEN "cleared" ELSE @,
                          !.trainer.recordingTimer = 0]
                  ELSE RecState
       IN  Recorded(finishRecording(st0, StopCall), "stopRecording")

\* timeout i is the next to run: it is due, and no pending one is due earlier
\* or was set earlier for the same time
NextTimer(i) ==
  /\ recTimers[i].state = "pending"
  /\ recTimers[i].due <= recClock
  /\ \A j \in DOMAIN recTimers :
       recTimers[j].state = "pending" /\ j # i =>
         \/ recTimers[j].due > recTimers[i].due
         \/ (recTimers[j].due = recTimers[i].due /\ j > i)

\* a timeout runs: the collectSample closure of its session, or the duration
\* timer's resolve(this.finishRecording())
RunTimer(i, kp) ==
  /\ i \in DOMAIN recTimers
  /\ NextTimer(i)
  /\ UNCHANGED recClock
  /\ LET s   == recTimers[i].session
         st0 == [RecState EXCEPT !.timers[i].state = "fired"]
     IN  IF recTimers[i].kind = "sample"
         THEN Recorded(recordSample(st0, s, kp, recClock), "sample")
         ELSE LET st1 == finishRecording(st0, s)
              IN  Recorded([st1 EXCEPT !.sessions[s].resolved = st1.result,
                                       !.sessions[s].count = st1.count],
                           "duration")

\* time passes once every due timeout has run
AdvanceClock ==
  /\ recClock + ClockStep <= MaxRecClock
  /\ \A i \in DOMAIN recTimers :
       recTimers[i].state = "pending" => recTimers[i].due > recClock
  /\ recClock' = recClock + ClockStep
  /\ trainerEv' = [NoTrainerEv EXCEPT !.op = "wait"]
  /\ UNCHANGED << trainer, storage, recTimers, sessions, detectorVars, poseVars,
                  simpleStorage >>

StartStep ==
  \E label \in RecordLabels, durationMs \in Durations, kp \in RecordPoses :
    startRecording(label, durationMs, kp)

TimerStep ==
  \E i \in DOMAIN recTimers :
    \E kp \in (IF recTimers[i].kind = "sample" THEN RecordPoses ELSE {NoPose("null")}) :
      RunTimer(i, kp)

NextRecording ==
  \/ initTrainer
  \/ StartStep
  \/ stopRecording
  \/ TimerStep
  \/ AdvanceClock

SpecRecording == Init /\ [][NextRecording]_vars

(* ------------------------------------------------------------------ *)
(* Storage: saveDataset and loadDataset over IndexedDB and localStorage *)
(* ------------------------------------------------------------------ *)
\* the datasets saved
StoredDatasets ==
  { [present |-> TRUE, good |-> g, slouch |-> b] :
      g \in {<< >>, << "ok" >>}, b \in {<< "ok", "ok" >>, << "ok", "null" >>} }

\* ensureStorageInit and SimpleStorage.init on first use: supported says
\* whether indexedDB exists (checkIndexedDBSupport, evaluated when the module
\* is loaded), opens whether indexedDB.open succeeds
ensureStorageInit(st, supported, opens) ==
  IF st.storageInitialized THEN st
  ELSE [st EXCEPT !.storageInitialized = TRUE,
                  !.isIndexedDBAvailable = supported /\ opens,
                  !.db = supported /\ opens]

\* SimpleStorage.set: the IndexedDB put, and on its failure, or without
\* IndexedDB, the write of the JSON text to localStorage
SimpleStorage_set(st, value, putFails, setItemFails) ==
  IF st.isIndexedDBAvailable /\ st.db /\ ~putFails
    THEN [st EXCEPT !.idb = value, !.op = "save", !.via = "IndexedDB", !.saved = value]
  ELSE IF setItemFails
    THEN [st EXCEPT !.op = "save failed", !.via = "none"]
  ELSE [st EXCEPT !.ls = [present |-> TRUE, good |-> stringify(value.good),
                          slouch |-> stringify(value.slouch)],
                  !.op = "save", !.via = "localStorage", !.saved = value]

\* SimpleStorage.get: the IndexedDB read, and on its failure, or without
\* IndexedDB, the text in localStorage
SimpleStorage_get(st, getFails) ==
  IF st.isIndexedDBAvailable /\ st.db /\ ~getFails
    THEN [value |-> st.idb, via |-> "IndexedDB"]
  ELSE [value |-> st.ls, via |-> "localStorage"]

\* storage.saveDataset(dataset, key)
storage_saveDataset(d, supported, opens, putFails, setItemFails) ==
  /\ simpleStorage' =
       SimpleStorage_set(ensureStorageInit(simpleStorage, supported, opens),
                         d, putFails, setItemFails)
  /\ UNCHANGED << detectorVars, poseVars, trainer, storage, trainerEv, recClock,
                  recTimers, sessions >>

\* storage.loadDataset(key): null (NoValue) when nothing is found
storage_loadDataset(supported, opens, getFails) ==
  /\ LET st == ensureStorageInit(simpleStorage, supported, opens)
         r  == SimpleStorage_get(st, getFails)
     IN  simpleStorage' = [st EXCEPT !.op = "load", !.via = r.via, !.loaded = r.value,
                                     !.readFailed = st.isIndexedDBAvailable /\ st.db /\ getFails]
  /\ UNCHANGED << detectorVars, poseVars, trainer, storage, trainerEv, recClock,
                  recTimers, sessions >>

SaveStep ==
  \E d \in StoredDatasets, supported, opens, putFails, setItemFails \in BOOLEAN :
    storage_saveDataset(d, supported, opens, putFails, setItemFails)

LoadStep ==
  \E supported, opens, getFails \in BOOLEAN :
    storage_loadDataset(supported, opens, getFails)

NextStorage ==
  \/ SaveStep
  \/ LoadStep

SpecStorage == Init /\ [][NextStorage]_vars

(* ------------------------------------------------------------------ *)
(* Properties of the alert engine                                       *)
(* ------------------------------------------------------------------ *)
AlertFired == ev.alerts > 0

\* C1: any two onAlert invocations of one detector are at least
\* ALERT_COOLDOWN_MS apart, over any sequence of windows, mute/snooze calls and
\* stop/start cycles (so two eligible windows inside the cooldown give one alert)
C1_CooldownBetweenAlerts ==
  \A i \in 1..Len(alertTimes) : \A j \in 1..Len(alertTimes) :
    i < j => alertTimes[j] - alertTimes[i] >= ALERT_COOLDOWN_MS

\* two alerts have been raised
C1_Witness == Len(alertTimes) >= 2

\* C2: onAlert is invoked only when SAMPLING_WINDOW_MS times the number of
\* bad windows in the retained history is at least PERSIST_MS
C2_AlertNeedsPersistence ==
  AlertFired =>
    SAMPLING_WINDOW_MS * Cardinality({i \in 1..Len(windowHistory) : windowHistory[i] = BAD})
      >= PERSIST_MS

\* an alert was raised with a non-bad window among the retained ones
C2_Witness == AlertFired /\ \E i \in 1..Len(windowHistory) : windowHistory[i] # BAD

\* C3: onAlert is never invoked while the mute flag is set or while the
\* current time has not passed the snooze-until timestamp
C3_NoAlertWhileMutedOrSnoozed ==
  AlertFired => (~isMuted /\ now > snoozeUntil)

\* an alert was raised after a snooze period ran out
C3_Witness == AlertFired /\ snoozeUntil > 0

\* C4: onAlert is invoked only with at least 2 windows of history and either
\* the two most recent windows bad or at least WINDOWS_VOTES_REQUIRED bad ones
\* among the last WINDOWS_HISTORY; never on the first window after start()
C4_AlertNeedsHistoryAndVotes ==
  AlertFired =>
    LET n == Len(windowHistory)
        lo == IF n > WINDOWS_HISTORY THEN n - WINDOWS_HISTORY + 1 ELSE 1
    IN  /\ n >= 2
        /\ \/ (windowHistory[n] = BAD /\ windowHistory[n - 1] = BAD)
           \/ Cardinality({i \in lo..n : windowHistory[i] = BAD}) >= WINDOWS_VOTES_REQUIRED
        /\ windowIndex >= 2

\* an alert was raised by the votes alone: the two latest windows are not both bad
C4_Witness ==
  /\ AlertFired
  /\ Len(windowHistory) = 3
  /\ windowHistory[2] # BAD

\* every alert condition holds on the state left by the last handler, for an
\* alert time of lastAlert
AllAlertConditions(lastAlert) ==
  LET n == Len(windowHistory)
      bad == Cardinality({i \in 1..n : windowHistory[i] = BAD})
  IN  /\ n >= 2
      /\ \/ (windowHistory[n] = BAD /\ windowHistory[n - 1] = BAD)
         \/ bad >= WINDOWS_VOTES_REQUIRED
      /\ bad * SAMPLING_WINDOW_MS >= PERSIST_MS
      /\ badPersistenceMs >= PERSIST_MS
      /\ now - lastAlert >= ALERT_COOLDOWN_MS
      /\ ~isMuted
      /\ now > snoozeUntil

\* C5: when a window with enough frames has been recorded and all alert
\* conditions hold, onAlert is invoked exactly once and lastAlertTime is set
\* to the current time
C5_AlertFiresWhenAllHold ==
  (ev.closed /\ ev.frames >= MIN_VALID_FRAMES /\ ev.recorded) =>
    IF AlertFired THEN ev.alerts = 1 /\ lastAlertTime = now
    ELSE ~AllAlertConditions(lastAlertTime)

\* C8: a window that closes with fewer than MIN_VALID_FRAMES samples is
\* reported as insufficient and raises no alert
C8_InsufficientNeverAlerts ==
  (ev.closed /\ ev.frames < MIN_VALID_FRAMES) =>
    (ev.reported /\ ev.label = INSUFFICIENT /\ ev.alerts = 0)

\* an insufficient window closed while the history held two bad windows, the
\* cooldown had run out and alerts were neither muted nor snoozed
C8_Witness ==
  /\ ev.closed
  /\ ev.frames < MIN_VALID_FRAMES
  /\ ev.frames > 0
  /\ Cardinality({i \in 1..Len(windowHistory) : windowHistory[i] = BAD}) >= 2
  /\ now - lastAlertTime >= ALERT_COOLDOWN_MS
  /\ ~isMuted
  /\ now > snoozeUntil

\* C6 (Scenario B): in a run started after the cooldown has run out, unmuted
\* and unsnoozed, three windows with a median relative angle of 15 degrees
\* label windows 2 and 3 bad and raise exactly one alert
C6_ScenarioB ==
  (run.n = 3 /\ run.rel = 15000 /\ run.cool /\ ~model /\ ~isMuted /\ now > snoozeUntil) =>
    /\ run.labels[2] = BAD
    /\ run.labels[3] = BAD
    /\ run.alerts = 1

\* C7 (Scenario A): windows with a median relative angle of 2 degrees are all
\* labelled good, up to five of them in a row and with the baseline and the
\* personalized thresholds updated by the earlier ones, and raise no alert
C7_ScenarioA ==
  (run.n >= 1 /\ run.rel = 2000) =>
    /\ Len(run.labels) = run.n
    /\ \A i \in 1..Len(run.labels) : run.labels[i] = GOOD
    /\ run.alerts = 0

\* five such windows have closed, with the baseline moved off its default and
\* personalized thresholds in force
C7_Witness ==
  /\ run.n = 5
  /\ run.rel = 2000
  /\ Len(run.labels) = 5
  /\ personalizedThresholds # NullThresholds
  /\ baselineAngle # BASELINE_ANGLE

\* C9: an insufficient window is pushed on the window history (evicting the
\* oldest record when full)
C9_InsufficientRecorded ==
  [][ (ev'.closed /\ ev'.label = INSUFFICIENT) =>
        windowHistory' = PushHistory(windowHistory, INSUFFICIENT) ]_vars

\* the cutoffs in force: the personalized ones when set, else the defaults
CutoffsInForce ==
  IF personalizedThresholds = NullThresholds
  THEN [good |-> GOOD_THRESHOLD, mild |-> MILD_THRESHOLD, bad |-> BAD_THRESHOLD]
  ELSE personalizedThresholds

\* C10: from hysteresis state good, a classified window with median angleRel
\* is good when angleRel <= mild cutoff + 1.5 degrees, mild when above that and
\* <= bad cutoff + 1.5 degrees, bad beyond
C10_HysteresisFromGood ==
  [][ (lastClassification = GOOD /\ ev'.closed /\ ev'.recorded) =>
        ev'.tlabel =
          (IF ev'.median <= CutoffsInForce.mild + 1500 THEN GOOD
           ELSE IF ev'.median <= CutoffsInForce.bad + 1500 THEN MILD
           ELSE BAD) ]_vars

\* a window 1.5 degrees above the default mild cutoff was classified good
C10_Witness ==
  /\ ev.closed
  /\ ev.recorded
  /\ ev.tlabel = GOOD
  /\ ev.median = MILD_THRESHOLD + 1500

\* C11: from hysteresis state mild, a classified window is good only when its
\* median angleRel <= good cutoff, bad when it is > bad cutoff, mild otherwise
\* (no margin either way)
C11_HysteresisFromMild ==
  [][ (lastClassification = MILD /\ ev'.closed /\ ev'.recorded) =>
        ev'.tlabel =
          (IF ev'.median <= CutoffsInForce.good THEN GOOD
           ELSE IF ev'.median <= CutoffsInForce.bad THEN MILD
           ELSE BAD) ]_vars

\* in state mild, with personalized cutoffs in force, a window above the mild
\* cutoff and not above the bad cutoff was classified mild
C11_Witness ==
  /\ ev.closed
  /\ ev.recorded
  /\ ev.tlabel = MILD
  /\ lastClassification = MILD
  /\ personalizedThresholds # NullThresholds
  /\ ev.median > personalizedThresholds.mild
  /\ ev.median <= personalizedThresholds.bad

\* C12: from state bad or with no prior state, classification is plain
\* thresholding: good when angleRel <= good cutoff, mild when good cutoff <
\* angleRel <= mild cutoff, and bad only when angleRel > bad cutoff, also when
\* the personalized mild cutoff is strictly below the bad cutoff
C12_PlainThresholding ==
  [][ (lastClassification \in {BAD, NoLabel} /\ ev'.closed /\ ev'.recorded) =>
        /\ (ev'.median <= CutoffsInForce.good) => ev'.tlabel = GOOD
        /\ (CutoffsInForce.good < ev'.median /\ ev'.median <= CutoffsInForce.mild)
              => ev'.tlabel = MILD
        /\ (ev'.tlabel = BAD) => ev'.median > CutoffsInForce.bad ]_vars

(* ------------------------------------------------------------------ *)
(* Properties of the ensemble (specification SpecModel)                 *)
(* ------------------------------------------------------------------ *)
\* the model's label is slouch: its slouch probability exceeds its good one
ModelSaysSlouch == ev.pSlouch > 1000 - ev.pSlouch

\* C13: with a model, when model and threshold classifier do not both say
\* bad, the window is bad exactly when MODEL_WEIGHT * P(slouch) +
\* THRESHOLD_WEIGHT * [threshold label is bad] > 0.5, else mild when the
\* threshold label is mild, else good
C13_EnsembleScore ==
  (ev.closed /\ ev.recorded /\ ev.inference = "ok"
     /\ ~(ModelSaysSlouch /\ ev.tlabel = BAD)) =>
    ev.label =
      (IF 700 * ev.pSlouch + 300 * (IF ev.tlabel = BAD THEN 1000 ELSE 0) > 500 * 1000
       THEN BAD
       ELSE IF ev.tlabel = MILD THEN MILD ELSE GOOD)

\* C14: with a model, a window is finally labelled bad only when the
\* threshold classifier labelled it bad
C14_BadNeedsThresholdAgreement ==
  (ev.closed /\ ev.recorded /\ ev.inference = "ok" /\ ev.label = BAD) => ev.tlabel = BAD

\* the model said slouch with probability 0.9, the threshold classifier said
\* mild, and the window was not labelled bad
C14_Witness ==
  /\ ev.closed
  /\ ev.recorded
  /\ ev.inference = "ok"
  /\ ev.pSlouch = 900
  /\ ev.tlabel = MILD
  /\ ev.label = MILD

\* C15: a window with enough frames whose model inference throws is still
\* classified by the thresholds, recorded in the history and reported
C15_InferenceFailureFallsBack ==
  (ev.closed /\ ev.frames >= MIN_VALID_FRAMES /\ ev.inference = "throw") =>
    /\ ev.recorded
    /\ ev.reported
    /\ ev.tlabel \in {GOOD, MILD, BAD}
    /\ ev.label = ev.tlabel

\* C16: every window that closes produces exactly one window-status callback
C16_OneStatusPerWindow ==
  ev.closed => ev.statuses = 1

(* ------------------------------------------------------------------ *)
(* Properties of the history and the baseline                           *)
(* ------------------------------------------------------------------ *)
\* C17: the history never holds more than WINDOWS_HISTORY records; a recorded
\* window is appended as the newest record and, when the history was full,
\* the oldest record is the one evicted; nothing else reorders the history
C17_HistoryBoundedFifo ==
  [][ /\ Len(windowHistory') <= WINDOWS_HISTORY
      /\ ev'.recorded =>
            windowHistory' =
              (IF Len(windowHistory) < WINDOWS_HISTORY
               THEN windowHistory \o << ev'.label >>
               ELSE SubSeq(windowHistory, 2, Len(windowHistory)) \o << ev'.label >>)
      /\ ~ev'.recorded => windowHistory' \in {windowHistory, << >>} ]_vars

\* a fourth window was recorded on a full history whose records differ: the
\* history holds the last three labels of the run, oldest first
C17_Witness ==
  /\ ev.recorded
  /\ Len(run.labels) >= 4
  /\ Len(windowHistory) = WINDOWS_HISTORY
  /\ windowHistory = SubSeq(run.labels, Len(run.labels) - 2, Len(run.labels))
  /\ windowHistory[1] # windowHistory[3]

\* C18: once the detector is initialised, the baseline angle changes only in
\* a step that closes a window finally labelled good
C18_BaselineChangesOnGoodOnly ==
  [][ (getKeypoints /\ baselineAngle' # baselineAngle) =>
        (ev'.closed /\ ev'.recorded /\ ev'.label = GOOD) ]_vars

\* C19: after a baseline update each personalized cutoff is at least its
\* static default minus 4.5 degrees (the bad cutoff at least its default),
\* for every window median from 0 to 70 degrees
C19_ThresholdFloors ==
  (personalizedThresholds # NullThresholds) =>
    /\ personalizedThresholds.good >= GOOD_THRESHOLD - 4500
    /\ personalizedThresholds.mild >= MILD_THRESHOLD - 4500
    /\ personalizedThresholds.bad >= BAD_THRESHOLD

\* the update for a window median of 0 left the good and the mild cutoff on
\* their floors
C19_Witness ==
  /\ ev.median = 0
  /\ personalizedThresholds # NullThresholds
  /\ personalizedThresholds.good = GOOD_THRESHOLD - 4500
  /\ personalizedThresholds.mild = MILD_THRESHOLD - 4500

(* ------------------------------------------------------------------ *)
(* Properties of the tick timer                                         *)
(* ------------------------------------------------------------------ *)
\* C20: a call made while the detector is running that is not a timer tick
\* and not stop() (start() among them) creates no timer and leaves the window
\* buffer, the window start time, the history, the hysteresis state and the
\* personalized thresholds unchanged; there is never more than one tick
\* timer, and there is one exactly when the detector is running
C20_StartIdempotentOneTimer ==
  [][ /\ liveTimers' = (IF isRunning' THEN 1 ELSE 0)
      /\ (isRunning /\ isRunning' /\ ticks' = ticks) =>
            /\ liveTimers' = liveTimers
            /\ currentWindow' = currentWindow
            /\ windowStartTime' = windowStartTime
            /\ windowHistory' = windowHistory
            /\ lastClassification' = lastClassification
            /\ personalizedThresholds' = personalizedThresholds ]_vars

\* C21: while the detector is stopped the tick timer is cancelled, the window
\* buffer is empty, and no window status and no alert is delivered, also
\* for a window whose inference was pending when stop() was called
C21_StopSilencesCallbacks ==
  ~isRunning =>
    /\ liveTimers = 0
    /\ ~detectionTimer
    /\ currentWindow = << >>
    /\ ev.statuses = 0
    /\ ev.alerts = 0

\* C22: stop() on a detector that is not running (stopped before, never
\* started or never initialised) invokes no callback, so raises nothing,
\* changes no field of the detector and leaves it not running
C22_StopIdempotent ==
  [][ (~isRunning /\ stopDetector) =>
        /\ ev'.messages = 0 /\ ev'.statuses = 0 /\ ev'.alerts = 0
        /\ ~isRunning'
        /\ UNCHANGED << now, getKeypoints, model, baselineAngle, isRunning, detectionTimer,
                        liveTimers, windowHistory, currentWindow, windowStartTime,
                        windowIndex, lastAlertTime, isMuted, snoozeUntil,
                        badPersistenceMs, personalizedThresholds, lastClassification,
                        alertTimes, run, ticks, pending, poseVars, trainerVars >> ]_vars

\* stop() has just returned for the second time in a row, after a run in
\* which a window was recorded
C22_Witness ==
  /\ ~isRunning
  /\ getKeypoints
  /\ ev = NoEv
  /\ windowHistory # << >>
  /\ ticks > 0
  /\ windowStartTime = 0

\* the tick that closed a window leaves the detector running with its timer
LoopSurvivesWindow == ev.closed => (isRunning /\ liveTimers = 1)

\* C23: an exception thrown by the window-status callback or by onAlert is
\* caught inside the detector (none leaves processWindow uncaught), and the
\* tick that closed the window leaves the detector running with its timer,
\* so that the later windows are closed and processed
C23_ThrowingCallbackCaught == ~ev.uncaught /\ LoopSurvivesWindow

\* C24: a result for keypoints that lack a required point is a rejection
\* (no features) whose reason names a point that is missing, and the step
\* that produced it left the smoothing buffer of the spine angle as it was
C24_MissingKeypointLeavesBuffer ==
  [][ (extracted'.kind = "pose" /\ extracted'.missing # {}) =>
        /\ ~extracted'.features
        /\ extracted'.error = "Missing required keypoint"
        /\ extracted'.point \in extracted'.missing
        /\ angleHistory' = angleHistory ]_vars

\* a pose without its nose was rejected while the buffer held angles
C24_Witness ==
  /\ extracted.kind = "pose"
  /\ extracted.missing = {"nose"}
  /\ ~extracted.features
  /\ extracted.point = "nose"
  /\ ~extracted.polled
  /\ Len(angleHistory) = MAX_HISTORY

\* the last poll was of a frame that passes every check of collectSample
PassesEveryCheck(e) ==
  /\ e.kind = "pose"
  /\ e.missing = {}
  /\ e.features
  /\ e.confidence >= MIN_CONFIDENCE
  /\ e.spineAngle >= MIN_ANGLE /\ e.spineAngle <= MAX_ANGLE
  /\ e.frameQuality >= MIN_ALIGNMENT_SCORE

\* C25: a poll of the keypoint source appends one sample to the window
\* buffer when the frame passes every check and nothing when getKeypoints
\* throws or returns null or the frame is rejected; the buffer grows by
\* polls of accepted frames only, one sample at a time, and the loop ends
\* only by stop()
C25_RejectedFrameAddsNothing ==
  /\ [](extracted.polled =>
          extracted.added = (IF PassesEveryCheck(extracted) THEN 1 ELSE 0))
  /\ [][ /\ Len(currentWindow') > Len(currentWindow) =>
              /\ extracted'.polled /\ PassesEveryCheck(extracted')
              /\ Len(currentWindow') = Len(currentWindow) + 1
              /\ SubSeq(currentWindow', 1, Len(currentWindow)) = currentWindow
              /\ currentWindow'[Len(currentWindow')].angle = extracted'.spineAngle
         /\ (isRunning /\ ~isRunning') => ev'.messages = 1 ]_vars

\* getKeypoints threw on a poll while the buffer held a sample
C25_Witness ==
  /\ isRunning
  /\ extracted.polled
  /\ extracted.kind = "throw"
  /\ extracted.added = 0
  /\ Len(currentWindow) = 1

\* C26: a tick at which SAMPLING_WINDOW_MS or more has passed since the
\* window started closes it whatever it holds: the window is processed, the
\* buffer is emptied, the next window starts at the time of the tick and the
\* window index grows by one; a tick before that time closes nothing
C26_WindowClosesOnTime ==
  [][ (isRunning /\ ticks' = ticks + 1) =>
        IF windowStartTime # 0 /\ now' - windowStartTime >= SAMPLING_WINDOW_MS
        THEN /\ ev'.closed
             /\ ev'.statuses = 1
             /\ currentWindow' = << >>
             /\ windowStartTime' = now'
             /\ windowIndex' = windowIndex + 1
        ELSE /\ ~ev'.closed
             /\ ev'.statuses = 0
             /\ windowIndex' = windowIndex
             /\ windowStartTime # 0 => windowStartTime' = windowStartTime ]_vars

\* the second window of a run has just been closed with no sample in it
C26_Witness ==
  /\ isRunning
  /\ ev.closed
  /\ ev.frames = 0
  /\ ev.label = INSUFFICIENT
  /\ windowIndex = 2
  /\ windowStartTime = now
  /\ currentWindow = << >>

\* C27: train() on a dataset with fewer than MIN_SAMPLES_PER_CLASS samples in
\* either class fails with the insufficient-training-data error, builds,
\* fits and saves no model and leaves the trainer and the stored dataset as
\* they were
C27_TrainNeedsBothClasses ==
  [][ (trainerEv'.op = "train"
        /\ (Len(trainer.datasets.good) < MIN_SAMPLES_PER_CLASS
            \/ Len(trainer.datasets.slouch) < MIN_SAMPLES_PER_CLASS)) =>
        /\ trainerEv'.error = "Insufficient training data"
        /\ ~trainerEv'.built /\ ~trainerEv'.fitted /\ ~trainerEv'.saved
        /\ trainer' = trainer
        /\ storage' = storage ]_vars

\* train() has just refused 15 good and 25 slouch samples
C27_Witness ==
  /\ trainerEv.op = "train"
  /\ trainerEv.error = "Insufficient training data"
  /\ Len(trainer.datasets.good) = 15
  /\ Len(trainer.datasets.slouch) = 25
  /\ ~trainer.model

\* the dataset holds a sample that is not an array of FEATURE_COUNT entries
Malformed(datasets) ==
  \/ \E i \in DOMAIN datasets.good : ~WellFormed(datasets.good[i])
  \/ \E i \in DOMAIN datasets.slouch : ~WellFormed(datasets.slouch[i])

\* C28: when train() fits a model the prepared data has a row and a one-hot
\* label for every sample of both classes, and train() on a dataset with a
\* malformed sample fails
C28_NoPartialTraining ==
  [][ trainerEv'.op = "train" =>
        /\ trainerEv'.fitted =>
             /\ trainerEv'.goodRows = Len(trainer.datasets.good)
             /\ trainerEv'.slouchRows = Len(trainer.datasets.slouch)
             /\ trainerEv'.labelsOk
        /\ Malformed(trainer.datasets) => trainerEv'.error # "none" ]_vars

\* C29: an importDataset that fails (text that is not JSON, no datasets.good
\* or datasets.slouch, or a failed write to storage) leaves the dataset, the
\* normalization stats and the baseline angle of the trainer as they were
C29_FailedImportChangesNothing ==
  [][ (trainerEv'.op = "import" /\ trainerEv'.error # "none") =>
        /\ trainer'.datasets = trainer.datasets
        /\ trainer'.normalizationStats = trainer.normalizationStats
        /\ trainer'.baselineAngle = trainer.baselineAngle ]_vars

\* the part of C29 on texts that are refused before anything is assigned
RefusedImportChangesNothing ==
  [][ (trainerEv'.op = "import"
        /\ trainerEv'.error \in {"parse error", "Invalid dataset format"}) =>
        (trainer' = trainer /\ storage' = storage) ]_vars

\* C30: importDataset(exportDataset()) leaves the number of good and of
\* slouch samples as they were
C30_ExportImportKeepsCounts ==
  [][ (trainerEv'.op = "import" /\ trainerEv'.roundTrip) =>
        /\ Len(trainer'.datasets.good) = Len(trainer.datasets.good)
        /\ Len(trainer'.datasets.slouch) = Len(trainer.datasets.slouch) ]_vars

\* a dataset with a NaN sample went through export and import: same counts,
\* the NaN read back as null
C30_Witness ==
  /\ trainerEv.op = "import"
  /\ trainerEv.roundTrip
  /\ trainerEv.error = "none"
  /\ Len(trainer.datasets.good) = MIN_SAMPLES_PER_CLASS + 1
  /\ trainer.datasets.good[MIN_SAMPLES_PER_CLASS + 1] = "null"
  /\ Len(trainer.datasets.slouch) = MIN_SAMPLES_PER_CLASS

(* ------------------------------------------------------------------ *)
(* Properties of the recording sessions                                 *)
(* ------------------------------------------------------------------ *)
\* C31: the promise startRecording(label, durationMs) returns resolves to the
\* count of samples the session recorded: the number of polled frames the
\* extraction accepted while the session was active, which is also the number
\* of feature vectors the session appended to the dataset of its label
C31_RecordingResolvesCount ==
  \A s \in DOMAIN sessions :
    sessions[s].resolved # "pending" =>
      /\ sessions[s].resolved = "count"
      /\ sessions[s].count = sessions[s].accepted
      /\ sessions[s].appended = sessions[s].count

\* every session ended so far was ended by one of its own callbacks or by
\* stopRecording(), and only its own callbacks polled frames for it
OwnTimersOnly ==
  \A s \in DOMAIN sessions :
    /\ sessions[s].endedBy \in {NotEnded, StopCall, s}
    /\ sessions[s].foreign = 0

\* startRecording() during a session throws and changes nothing
BusyStartRefused ==
  (trainerEv'.op = "startRecording" /\ trainerEv'.error = "Already recording")
    => UNCHANGED << trainer, sessions, recTimers, storage, angleHistory >>

\* C39: a recording session is affected by its own timers only: no duration
\* timer or sample callback left over from a finished session ends a later
\* session, polls frames into it or records under its label, and
\* startRecording() during a session throws without disturbing the session
C39_SessionsIsolated == []OwnTimersOnly /\ [][BusyStartRefused]_vars

(* ------------------------------------------------------------------ *)
(* Properties of the storage                                            *)
(* ------------------------------------------------------------------ *)
\* C32: once a saveDataset(d, key) has resolved, loadDataset(key) returns a
\* dataset with the good and slouch samples of the d saved last, whichever
\* backend served the write, also when the IndexedDB write failed and the
\* value went to the localStorage fallback (reads that fail are left aside)
C32_StorageRoundTrip ==
  (simpleStorage.op = "load" /\ simpleStorage.saved.present /\ ~simpleStorage.readFailed) =>
    /\ simpleStorage.loaded.present
    /\ simpleStorage.loaded.good = simpleStorage.saved.good
    /\ simpleStorage.loaded.slouch = simpleStorage.saved.slouch

(* ------------------------------------------------------------------ *)
(* Properties of the window status, the hysteresis state and the alerts *)
(* ------------------------------------------------------------------ *)
\* C33: the window status handed to onUpdate carries the frame count and the
\* index of the window that closed, also when it is built after the awaited
\* inference, when checkWindowComplete has emptied the buffer and advanced
\* the index
C33_StatusOfClosedWindow ==
  (ev.closed /\ ev.reported) =>
    /\ ev.validFrames = ev.frames
    /\ ev.idx = windowIndex - 1

\* C34: after every classified window the hysteresis state is the label the
\* threshold classifier returned for that window (after a window classified
\* mild from state good the state is mild, and so on)
C34_StateIsLastLabel ==
  (ev.closed /\ ev.recorded) => lastClassification = ev.tlabel

\* C35: forceInferOnce() only reads the detector: the hysteresis state, the
\* window buffer, the window history, the bad-persistence sum, the baseline,
\* the thresholds and the alert timestamps are the same after the call as
\* before it
C35_ForceInferReadOnly ==
  [][(\E rel \in ForceRels : forceInferOnce(rel)) =>
       UNCHANGED << lastClassification, currentWindow, windowHistory, badPersistenceMs,
                    baselineAngle, personalizedThresholds, lastAlertTime, snoozeUntil >>]_vars

\* C36: whenever no window is being processed, badPersistenceMs is
\* SAMPLING_WINDOW_MS times the number of bad records in the window history
\* (0 right after start()), also after a window whose status callback threw
C36_PersistenceMatchesHistory ==
  badPersistenceMs = BadPersistence(windowHistory)

\* C37: an alert is raised only while a window is processed whose own final
\* label is bad; a good or mild window raises none, also when two earlier bad
\* windows are still in the history and their alert was held back
C37_AlertOnlyOnBadWindow ==
  ev.alerts > 0 => (ev.closed /\ ev.label = BAD)

\* the detector has been running since start() with the cooldown elapsed,
\* alerts neither muted nor snoozed, and every window so far had enough
\* frames and was labelled bad
SustainedSlouching ==
  /\ isRunning
  /\ run.cool
  /\ ~isMuted
  /\ now > snoozeUntil
  /\ run.n >= 1
  /\ Len(run.labels) = run.n
  /\ \A i \in 1..Len(run.labels) : run.labels[i] = BAD

\* C38: under sustained slouching (detector running, not muted or snoozed,
\* cooldown elapsed, every window with enough frames and labelled bad) an
\* alert has fired by the second such window; the deadline the claim sets
\* makes this a bounded response, stated on the windows closed since start()
C38_SlouchingRaisesAlert ==
  (SustainedSlouching /\ run.n >= 2) => run.alerts >= 1

\* C40: the thresholds in force, the defaults or the personalized ones after
\* any good windows, satisfy 0 < good < mild <= bad
C40_ThresholdsOrdered ==
  LET t == getThresholds(personalizedThresholds)
  IN  /\ 0 < t.good
      /\ t.good < t.mild
      /\ t.mild <= t.bad

\* personalized thresholds are in force: once with the good and the mild
\* cutoff on their floors, once with both on their caps
C40_Witness ==
  /\ personalizedThresholds # NullThresholds
  /\ \/ (ev.median = 0 /\ personalizedThresholds.good = 500
                        /\ personalizedThresholds.mild = GOOD_THRESHOLD + 500)
     \/ (ev.median = 9000 /\ personalizedThresholds.good = GOOD_THRESHOLD
                           /\ personalizedThresholds.mild = MILD_THRESHOLD)

====
